---- MODULE Spec2Model ----
(***************************************************************************)
(* DIP client (src/src/predict.py, RemoteModel.batch_predict) composed     *)
(* with its environment: either an arbitrary HTTP endpoint (as the mocks   *)
(* of the test-suite) or a server running DipMiddleware                    *)
(* (src/src/dip_ml/fast_api.py) whose application revision may change at   *)
(* any moment.                                                             *)
(*                                                                         *)
(* One behaviour is one call of batch_predict.  The steps of the coroutine *)
(* between two awaits are one action each.                                 *)
(***************************************************************************)
EXTENDS Integers, Sequences, FiniteSets, TLC

\* ------------------------------------------------------------------ bounds
MaxN == 2
MaxBatchRetry == 3
MaxDataPointRetry == 2
\* cap on len(x) * batch_retry * data_point_retry of the explored configurations
MaxPosts == 6

\* ------------------------------------------------------------------ values
\* Python's None where a str is expected (also what a JSON null revision parses to)
None == "None"
\* Python's None where an object (bytes, list) is expected
NoneObj == [kind |-> "None"]
\* a task whose __predict has not returned yet
Pending == [done |-> FALSE]
\* a header that is not in the request
Absent == "absent"
\* no GET was issued, so there is no answer to it
NoAnswer == [kind |-> "none"]
\* the call is not one of a pair of calls that are compared
NoPair == [phase |-> 0]
\* revision strings the revision endpoint may serve
Revs == {"1", "2"}
\* what r["revision"] may evaluate to on a 200 JSON answer of an arbitrary endpoint
FetchValues == Revs \cup {None}
\* the path the client posts to, and the paths the middleware guards
PredictPath == "/predict"
Paths == {PredictPath}
\* the values that are instances of bytes or io.IOBase
BinaryKinds == {"bytes", "iobase"}
\* an item that is a bytes object, and the items that are bytes or a stream
Blob == "bytes"
BinaryItems == BinaryKinds
\* the dict objects of the caller, and what each holds when the call starts:
\* one scalar entry and one bytes entry
ObjIds == {"o1"}
FullDict == [k \in {"f", "img"} |-> IF k = "img" THEN "bytes" ELSE "scalar"]

VARIABLES
    cfg,            \* constructor arguments, the kind of x and len(x)
    x,              \* the input list: per index a bytes item or a reference to a dict
    heap,           \* the caller's dict objects (mutable)
    pc,             \* position of the batch_predict coroutine
    batch_retry_idx,\* _batch_retry_idx of the outer for loop (0-based)
    dp_idx,         \* index of the inner for loop (0-based)
    revision,       \* local variable revision
    prev_revision,  \* local variable prev_revision
    predictions,    \* local list predictions (the slots)
    tasks,          \* tasks of the current wave: sequence of <<data_idx, revision>>
    started,        \* number of tasks of the wave whose __predict reached the POST
    inflight,       \* the requests of the wave, in task order
    responses,      \* per task: Pending, or the pair returned by __predict
    stats,          \* batch_predict_stat.batch_retries
    result,         \* the first component of the returned tuple
    appRevision,    \* the serving application's revision (DipMiddleware.__app_revision)
    fetched,        \* history: per round started, what the revision step did
                    \* and the answer the GET got
    sent,           \* history: per index, the payloads posted for it
    gets,           \* history: number of GETs issued
    posts,          \* history: number of POSTs issued
    joined,         \* history: per wave joined, its requests and the slots it left
    pair            \* the bookkeeping of a pair of calls that are compared

vars == <<cfg, x, heap, pc, batch_retry_idx, dp_idx, revision, prev_revision,
          predictions, tasks, started, inflight, responses, stats, result,
          appRevision, fetched, sent, gets, posts, joined, pair>>

Indices == 1 .. cfg.n

\* ------------------------------------------------------------------ helpers
Restrict(f, S) == [k \in S |-> f[k]]

\* ------------------------------------------------------------------ stats
NewBatchRetryStat ==
    [start_time |-> "set", end_time |-> None, revision |-> None,
     revision_error |-> None, data_point_retries |-> << >>]

NewDataPointRetryStat(data_idx) ==
    [start_time |-> "set", end_time |-> None, data_idx |-> data_idx,
     status_code |-> None, error |-> None]

\* an assignment to a field of batch_retry_stat, the record appended last
SetCur(field, value) == [stats EXCEPT ![Len(stats)][field] = value]

\* ------------------------------------------------------------------ pure code
\* (mutation) the test on the batch size inverted
ShouldSkipRevisionManyPoints(skip_flag, n) == skip_flag /\ n > 1

\* line 112
ShouldSkipRevision(skip_flag, n) == skip_flag /\ n = 1

\* (mutation) the reset on a changed revision left out
RevisionChangedNever(rev, prev) == FALSE

\* (mutation) the slots reset at every successful fetch
RevisionChangedAlways(rev, prev) == TRUE

\* (mutation) a revision compared with every revision fetched so far
RevisionChangedUnseen(rev, prev) ==
    rev \notin {fetched[k].value : k \in {j \in DOMAIN fetched : fetched[j].kind = "ok"}}

\* line 123
RevisionChanged(rev, prev) == rev # prev

\* lines 102 and 124
ResetPredictions(n) == [i \in 1 .. n |-> NoneObj]

\* lines 187-189: the loop of __generate_tasks from index i on
RECURSIVE GenerateTasksFrom(_, _, _)
GenerateTasksFrom(preds, rev, i) ==
    IF i > Len(preds) THEN << >>
    ELSE (IF preds[i] = NoneObj THEN << <<i, rev>> >> ELSE << >>)
         \o GenerateTasksFrom(preds, rev, i + 1)

\* (mutation) a task for every index, filled or not
GenerateTasksAll(preds, rev) == [i \in 1 .. Len(preds) |-> <<i, rev>>]

\* (mutation) the tasks built with the revision of the round before
GenerateTasksStale(preds, rev) == GenerateTasksFrom(preds, prev_revision, 1)

\* __generate_tasks
GenerateTasks(preds, rev) == GenerateTasksFrom(preds, rev, 1)

\* lines 221-228
BuildHeaders(model_revision) ==
    IF model_revision = None
    THEN [x_dip |-> "off", x_model_revision |-> Absent]
    ELSE [x_dip |-> Absent, x_model_revision |-> model_revision]

\* (mutation) the binary entries copied to files and left in data
ExtractFilesCopies(item, h) ==
    IF item \in BinaryItems
    THEN [data |-> << >>, files |-> [k \in {"media"} |-> item], heap |-> h]
    ELSE IF item \in ObjIds
    THEN LET d == h[item]
             keys_to_extract == {k \in DOMAIN d : d[k] \in BinaryKinds}
         IN  [data |-> d,
              files |-> Restrict(d, keys_to_extract),
              heap |-> h]
    ELSE [data |-> item, files |-> << >>, heap |-> h]

\* __extract_files on item `item` with the heap `h`:
\* the (data, files) pair it returns and the heap it leaves behind
ExtractFiles(item, h) ==
    IF item \in BinaryItems
    THEN [data |-> << >>, files |-> [k \in {"media"} |-> item], heap |-> h]
    ELSE IF item \in ObjIds
    THEN LET d == h[item]
             keys_to_extract == {k \in DOMAIN d : d[k] \in BinaryKinds}
             rest == Restrict(d, DOMAIN d \ keys_to_extract)
         IN  [data |-> rest,
              files |-> Restrict(d, keys_to_extract),
              heap |-> [h EXCEPT ![item] = rest]]
    ELSE [data |-> item, files |-> << >>, heap |-> h]

\* the classification of an item as the caller handed it in
Classify(item) ==
    LET e == ExtractFiles(item, [o \in ObjIds |-> FullDict])
    IN  [data |-> e.data, files |-> e.files]

\* lines 278-280: the loop of __assign_predictions_from_dip_responses
RECURSIVE AssignFrom(_, _, _)
AssignFrom(preds, resps, k) ==
    IF k > Len(resps) THEN preds
    ELSE AssignFrom(
            IF resps[k].dip.status_code = "200"
            THEN [preds EXCEPT ![resps[k].dip.data_idx] = resps[k].dip.content]
            ELSE preds,
            resps, k + 1)

\* (mutation) the body of every response that has a status code assigned
AssignPredictionsAnyStatus(preds, resps) ==
    [i \in DOMAIN preds |->
        LET hits == {k \in DOMAIN resps : resps[k].dip.data_idx = i
                                          /\ resps[k].dip.status_code # None}
        IN  IF hits = {} THEN preds[i]
            ELSE resps[CHOOSE k \in hits : \A j \in hits : j <= k].dip.content]

\* (mutation) the status test inverted
AssignPredictionsInverted(preds, resps) ==
    [i \in DOMAIN preds |->
        LET hits == {k \in DOMAIN resps : resps[k].dip.data_idx = i
                                          /\ resps[k].dip.status_code # "200"}
        IN  IF hits = {} THEN preds[i]
            ELSE resps[CHOOSE k \in hits : \A j \in hits : j <= k].dip.content]

\* (mutation) the content assigned by the position of the response in the
\* wave, not by its data_idx
AssignPredictionsByPosition(preds, resps) ==
    [i \in DOMAIN preds |->
        IF i <= Len(resps) /\ resps[i].dip.status_code = "200"
        THEN resps[i].dip.content
        ELSE preds[i]]

AssignPredictions(preds, resps) == AssignFrom(preds, resps, 1)

\* ------------------------------------------------------------------ server
\* (mutation) the comparison with the application's revision left out
ProcessRequestNoMismatch(paths, method, path, headers, app_revision) ==
    IF path = "/model_revision" /\ method = "GET" THEN "revision"
    ELSE IF path \notin paths \/ method # "POST" THEN "call_next"
    ELSE IF headers.x_dip # Absent /\ headers.x_dip = "off" THEN "call_next"
    ELSE IF headers.x_model_revision = Absent THEN "412"
    ELSE "call_next"

\* (mutation) the check that x-model-revision is present left out
ProcessRequestNoRequired(paths, method, path, headers, app_revision) ==
    IF path = "/model_revision" /\ method = "GET" THEN "revision"
    ELSE IF path \notin paths \/ method # "POST" THEN "call_next"
    ELSE IF headers.x_dip # Absent /\ headers.x_dip = "off" THEN "call_next"
    ELSE IF headers.x_model_revision # app_revision THEN "400"
    ELSE "call_next"

\* (mutation) the bypass taken on any x-dip header, whatever its value
ProcessRequestAnyXDip(paths, method, path, headers, app_revision) ==
    IF path = "/model_revision" /\ method = "GET" THEN "revision"
    ELSE IF path \notin paths \/ method # "POST" THEN "call_next"
    ELSE IF headers.x_dip # Absent THEN "call_next"
    ELSE IF headers.x_model_revision = Absent THEN "412"
    ELSE IF headers.x_model_revision # app_revision THEN "400"
    ELSE "call_next"

\* (mutation) the revision query looked at after the scope of the gate
ProcessRequestRevisionLast(paths, method, path, headers, app_revision) ==
    IF path \notin paths \/ method # "POST" THEN "call_next"
    ELSE IF headers.x_dip # Absent /\ headers.x_dip = "off" THEN "call_next"
    ELSE IF headers.x_model_revision = Absent THEN "412"
    ELSE IF headers.x_model_revision # app_revision THEN "400"
    ELSE IF path = "/model_revision" /\ method = "GET" THEN "revision"
    ELSE "call_next"

\* (mutation) the gate applied to the POSTs of every path
ProcessRequestEveryPath(paths, method, path, headers, app_revision) ==
    IF path = "/model_revision" /\ method = "GET" THEN "revision"
    ELSE IF method # "POST" THEN "call_next"
    ELSE IF headers.x_dip # Absent /\ headers.x_dip = "off" THEN "call_next"
    ELSE IF headers.x_model_revision = Absent THEN "412"
    ELSE IF headers.x_model_revision # app_revision THEN "400"
    ELSE "call_next"

\* DipMiddleware.process_request: "revision" (answers the revision query with
\* status 200), "call_next" (forwards to the application), or the status code
\* the middleware answers with itself
ProcessRequest(paths, method, path, headers, app_revision) ==
    IF path = "/model_revision" /\ method = "GET" THEN "revision"
    ELSE IF path \notin paths \/ method # "POST" THEN "call_next"
    ELSE IF headers.x_dip # Absent /\ headers.x_dip = "off" THEN "call_next"
    ELSE IF headers.x_model_revision = Absent THEN "412"
    ELSE IF headers.x_model_revision # app_revision THEN "400"
    ELSE "call_next"

\* status codes the application's handler (or an endpoint without the
\* middleware) may answer a POST with
HandlerStatuses == {"200", "400"}

\* the status codes a POST with `headers` can be answered with
PostStatuses(headers) ==
    IF cfg.gated
    THEN LET d == ProcessRequest(Paths, "POST", PredictPath, headers, appRevision)
         IN  IF d = "call_next" THEN HandlerStatuses ELSE {d}
    ELSE HandlerStatuses

\* the body of a response: identified by the request it answers, the status
\* it comes with and the revision the server ran when it handled the request
Body(req, status) ==
    [kind |-> "bytes", data_idx |-> req.data_idx, round |-> batch_retry_idx + 1,
     wave |-> dp_idx + 1, status |-> status, headers |-> req.headers,
     served |-> appRevision]

\* answers of an endpoint without the middleware to GET /model_revision
EndpointGetAnswers ==
    {[kind |-> "exception"],
     [kind |-> "response", status |-> "500", json |-> FALSE,
      has_revision |-> FALSE, revision |-> None],
     [kind |-> "response", status |-> "200", json |-> FALSE,
      has_revision |-> FALSE, revision |-> None],
     [kind |-> "response", status |-> "200", json |-> TRUE,
      has_revision |-> FALSE, revision |-> None]}
    \cup {[kind |-> "response", status |-> "200", json |-> TRUE,
           has_revision |-> TRUE, revision |-> v] : v \in FetchValues}

\* answers to GET /model_revision: a transport exception, or a response
GetAnswers ==
    IF cfg.gated
    THEN {[kind |-> "exception"],
          [kind |-> "response", status |-> "200", json |-> TRUE,
           has_revision |-> TRUE, revision |-> appRevision]}
    ELSE EndpointGetAnswers

\* (mutation) the key read with dict.get: an answer without the key gives None
RequestRevisionLenient(a) ==
    IF a.kind = "exception"
        THEN [ok |-> FALSE, value |-> None, error |-> "TransportError"]
    ELSE IF a.status # "200"
        THEN [ok |-> FALSE, value |-> None, error |-> "InvalidResponseStatusException"]
    ELSE IF ~a.json
        THEN [ok |-> FALSE, value |-> None,
              error |-> "ProtocolViolationException: not JSON"]
    ELSE [ok |-> TRUE, value |-> a.revision, error |-> None]

\* __request_revision on the answer `a`: the value returned, or the exception raised
RequestRevision(a) ==
    IF a.kind = "exception"
        THEN [ok |-> FALSE, value |-> None, error |-> "TransportError"]
    ELSE IF a.status # "200"
        THEN [ok |-> FALSE, value |-> None, error |-> "InvalidResponseStatusException"]
    ELSE IF ~a.json
        THEN [ok |-> FALSE, value |-> None,
              error |-> "ProtocolViolationException: not JSON"]
    ELSE IF ~a.has_revision
        THEN [ok |-> FALSE, value |-> None,
              error |-> "ProtocolViolationException: no revision"]
    ELSE [ok |-> TRUE, value |-> a.revision, error |-> None]

\* ------------------------------------------------------------------ init
\* what the caller may pass as x: a list, a tuple, a str (the "not_list" of
\* the test-suite) or an int
InputKinds == {"list", "tuple", "str", "int"}

\* input: the kind of x; n: the length of the list x (0 when x is no list)
Configs ==
    {c \in [n : 0 .. MaxN, batch_retry : 0 .. MaxBatchRetry,
            data_point_retry : 0 .. MaxDataPointRetry,
            sequential : BOOLEAN, skip : BOOLEAN, gated : BOOLEAN,
            input : InputKinds] :
        /\ c.n * c.batch_retry * c.data_point_retry <= MaxPosts
        /\ c.input # "list" => c.n = 0}

\* the explored inputs: batches that hold one item at every index, a bytes
\* object or one and the same dict
Inputs(n) == {[i \in 1 .. n |-> item] : item \in {Blob} \cup ObjIds}

\* the state of a call that starts, for the configuration and input chosen
InitCall ==
    /\ heap = [o \in ObjIds |-> FullDict]
    /\ pc = "start"
    /\ batch_retry_idx = 0
    /\ dp_idx = 0
    /\ revision = None
    /\ prev_revision = None
    /\ predictions = ResetPredictions(cfg.n)
    /\ tasks = << >>
    /\ started = 0
    /\ inflight = << >>
    /\ responses = << >>
    /\ stats = << >>
    /\ result = NoneObj
    /\ fetched = << >>
    /\ sent = [i \in 1 .. cfg.n |-> {}]
    /\ gets = 0
    /\ posts = 0
    /\ joined = << >>

Init ==
    /\ cfg \in Configs
    /\ x \in Inputs(cfg.n)
    /\ appRevision \in Revs
    /\ InitCall
    /\ pair = NoPair

\* ------------------------------------------------------------------ actions
\* (mutation) every sequence let through: isinstance(x, Sequence)
InputIsSequence(kind) == kind \in {"list", "tuple", "str"}

\* line 159: isinstance(x, list)
InputIsList(kind) == kind = "list"

\* lines 100-103: __check_input raises ValueError, or the locals are set up
CheckInput ==
    /\ pc = "start"
    /\ IF InputIsList(cfg.input)
       THEN /\ pc' = "round"
            /\ stats' = << >>
            /\ predictions' = ResetPredictions(cfg.n)
            /\ revision' = None
       ELSE /\ pc' = "raised"
            /\ UNCHANGED <<stats, predictions, revision>>
    /\ UNCHANGED <<joined, pair, cfg, x, heap, batch_retry_idx, dp_idx, prev_revision, tasks,
                   started, inflight, responses, result, appRevision, fetched,
                   sent, gets, posts>>

\* lines 105-114 and 125-128: loop head; in skip mode no GET, else the GET is issued
NextRound ==
    /\ pc = "round"
    /\ batch_retry_idx < cfg.batch_retry
    /\ stats' = Append(stats, NewBatchRetryStat)
    /\ prev_revision' = revision
    /\ IF ShouldSkipRevision(cfg.skip, cfg.n)
       THEN /\ revision' = None
            /\ fetched' = Append(fetched, [kind |-> "skip", value |-> None,
                                            answer |-> NoAnswer])
            /\ dp_idx' = 0
            /\ pc' = "wave"
            /\ gets' = gets
       ELSE /\ pc' = "fetch"
            /\ gets' = gets + 1
            /\ UNCHANGED <<revision, fetched, dp_idx>>
    /\ UNCHANGED <<joined, pair, cfg, x, heap, batch_retry_idx, predictions, tasks, started,
                   inflight, responses, result, appRevision, sent, posts>>

\* lines 116-117 and 123-124: the GET answered, __request_revision returns
FetchOk ==
    /\ pc = "fetch"
    /\ \E a \in GetAnswers :
         LET r == RequestRevision(a) IN
         /\ r.ok
         /\ revision' = r.value
         /\ stats' = SetCur("revision", r.value)
         /\ predictions' = IF RevisionChanged(r.value, prev_revision)
                           THEN ResetPredictions(cfg.n)
                           ELSE predictions
         /\ fetched' = Append(fetched, [kind |-> "ok", value |-> r.value,
                                         answer |-> a])
    /\ dp_idx' = 0
    /\ pc' = "wave"
    /\ UNCHANGED <<joined, pair, cfg, x, heap, batch_retry_idx, prev_revision, tasks, started,
                   inflight, responses, result, appRevision, sent, gets, posts>>

\* (mutation) the record of a failed fetch reports the revision the call
\* still holds from an earlier round
FetchFailKeepsRevision ==
    /\ pc = "fetch"
    /\ \E a \in GetAnswers :
         LET r == RequestRevision(a) IN
         /\ ~r.ok
         /\ stats' = [stats EXCEPT ![Len(stats)].end_time = "set",
                                   ![Len(stats)].revision = revision]
         /\ fetched' = Append(fetched, [kind |-> "fail", value |-> None,
                                         answer |-> a])
    /\ pc' = "except"
    /\ UNCHANGED <<joined, pair, cfg, x, heap, batch_retry_idx, dp_idx, revision,
                   prev_revision, predictions, tasks, started, inflight, responses,
                   result, appRevision, sent, gets, posts>>

\* (mutation) a failed fetch forgets the revision the call held
FetchFailForgetsRevision ==
    /\ pc = "fetch"
    /\ \E a \in GetAnswers :
         LET r == RequestRevision(a) IN
         /\ ~r.ok
         /\ stats' = SetCur("end_time", "set")
         /\ fetched' = Append(fetched, [kind |-> "fail", value |-> None,
                                         answer |-> a])
    /\ revision' = None
    /\ pc' = "except"
    /\ UNCHANGED <<joined, pair, cfg, x, heap, batch_retry_idx, dp_idx,
                   prev_revision, predictions, tasks, started, inflight, responses,
                   result, appRevision, sent, gets, posts>>

\* lines 116, 118-119: __request_revision raises; the handler writes the end
\* time of the round's record
FetchFail ==
    /\ pc = "fetch"
    /\ \E a \in GetAnswers :
         LET r == RequestRevision(a) IN
         /\ ~r.ok
         /\ stats' = SetCur("end_time", "set")
         /\ fetched' = Append(fetched, [kind |-> "fail", value |-> None,
                                         answer |-> a])
    /\ pc' = "except"
    /\ UNCHANGED <<joined, pair, cfg, x, heap, batch_retry_idx, dp_idx, revision,
                   prev_revision, predictions, tasks, started, inflight, responses,
                   result, appRevision, sent, gets, posts>>

\* (mutation) the continue left out: after a failed fetch the round goes on
\* to its waves
FetchFailFallsThrough ==
    /\ pc = "except"
    /\ stats' = SetCur("revision_error",
                       RequestRevision(fetched[Len(fetched)].answer).error)
    /\ dp_idx' = 0
    /\ pc' = "wave"
    /\ UNCHANGED <<joined, pair, cfg, x, heap, batch_retry_idx, revision, prev_revision,
                   predictions, tasks, started, inflight, responses, result,
                   appRevision, fetched, sent, gets, posts>>

\* lines 120-121: the handler then writes repr(e) into the record, and the
\* round is over
RecordRevisionError ==
    /\ pc = "except"
    /\ stats' = SetCur("revision_error",
                       RequestRevision(fetched[Len(fetched)].answer).error)
    /\ batch_retry_idx' = batch_retry_idx + 1
    /\ pc' = "round"
    /\ UNCHANGED <<joined, pair, cfg, x, heap, dp_idx, revision, prev_revision, predictions,
                   tasks, started, inflight, responses, result, appRevision,
                   fetched, sent, gets, posts>>

\* (mutation) the inner loop entered once more than data_point_retry times
NextWaveOneMore ==
    /\ pc = "wave"
    /\ dp_idx <= cfg.data_point_retry
    /\ tasks' = GenerateTasks(predictions, revision)
    /\ started' = 0
    /\ inflight' = << >>
    /\ responses' = [k \in 1 .. Len(tasks') |-> Pending]
    /\ pc' = "dispatch"
    /\ UNCHANGED <<joined, pair, cfg, x, heap, batch_retry_idx, dp_idx, revision, prev_revision,
                   predictions, stats, result, appRevision, fetched, sent, gets,
                   posts>>

\* lines 130-131: head of the inner loop, the wave's tasks
NextWave ==
    /\ pc = "wave"
    /\ dp_idx < cfg.data_point_retry
    /\ tasks' = GenerateTasks(predictions, revision)
    /\ started' = 0
    /\ inflight' = << >>
    /\ responses' = [k \in 1 .. Len(tasks') |-> Pending]
    /\ pc' = "dispatch"
    /\ UNCHANGED <<joined, pair, cfg, x, heap, batch_retry_idx, dp_idx, revision, prev_revision,
                   predictions, stats, result, appRevision, fetched, sent, gets,
                   posts>>

\* (mutation) the tasks of a sequential wave started without waiting for the
\* one before
StartPredictEager ==
    /\ pc = "dispatch"
    /\ started < Len(tasks)
    /\ LET t == tasks[started + 1]
           e == ExtractFiles(x[t[1]], heap)
       IN  /\ heap' = e.heap
           /\ inflight' = Append(inflight,
                  [data_idx |-> t[1], headers |-> BuildHeaders(t[2]),
                   data |-> e.data, files |-> e.files])
           /\ sent' = [sent EXCEPT ![t[1]] =
                          @ \cup {[data |-> e.data, files |-> e.files]}]
    /\ started' = started + 1
    /\ posts' = posts + 1
    /\ UNCHANGED <<joined, pair, cfg, x, pc, batch_retry_idx, dp_idx, revision, prev_revision,
                   predictions, tasks, responses, stats, result, appRevision,
                   fetched, gets>>

\* lines 214-235: __predict of the next task up to the await of client.post.
\* Sequentially a task starts when the previous one has returned; under
\* asyncio.gather the tasks start in order without waiting for each other.
StartPredict ==
    /\ pc = "dispatch"
    /\ started < Len(tasks)
    /\ cfg.sequential => \A k \in 1 .. started : responses[k].done
    /\ LET t == tasks[started + 1]
           e == ExtractFiles(x[t[1]], heap)
       IN  /\ heap' = e.heap
           /\ inflight' = Append(inflight,
                  [data_idx |-> t[1], headers |-> BuildHeaders(t[2]),
                   data |-> e.data, files |-> e.files])
           /\ sent' = [sent EXCEPT ![t[1]] =
                          @ \cup {[data |-> e.data, files |-> e.files]}]
    /\ started' = started + 1
    /\ posts' = posts + 1
    /\ UNCHANGED <<joined, pair, cfg, x, pc, batch_retry_idx, dp_idx, revision, prev_revision,
                   predictions, tasks, responses, stats, result, appRevision,
                   fetched, gets>>

\* a task's POST may complete once it is in flight (under gather: once every
\* task of the wave has reached its await)
CanComplete(k) ==
    /\ pc = "dispatch"
    /\ k \in 1 .. started
    /\ ~responses[k].done
    /\ ~cfg.sequential => started = Len(tasks)

\* lines 237-243 and 251-252: the POST is answered
PostAnswered ==
    \E k \in 1 .. started :
      /\ CanComplete(k)
      /\ \E status \in PostStatuses(inflight[k].headers) :
           responses' = [responses EXCEPT ![k] =
              [done |-> TRUE,
               dip |-> [data_idx |-> inflight[k].data_idx, status_code |-> status,
                        error |-> None, content |-> Body(inflight[k], status)],
               stat |-> [NewDataPointRetryStat(inflight[k].data_idx) EXCEPT
                            !.status_code = status, !.end_time = "set"]]]
      /\ UNCHANGED <<joined, pair, cfg, x, heap, pc, batch_retry_idx, dp_idx, revision,
                     prev_revision, predictions, tasks, started, inflight, stats,
                     result, appRevision, fetched, sent, gets, posts>>

\* (mutation) the try/except around client.post left out: the exception
\* leaves __predict and batch_predict
PostRaisesPropagates ==
    \E k \in 1 .. started :
      /\ CanComplete(k)
      /\ pc' = "raised"
      /\ UNCHANGED <<joined, pair, cfg, x, heap, batch_retry_idx, dp_idx, revision,
                     prev_revision, predictions, tasks, started, inflight,
                     responses, stats, result, appRevision, fetched, sent, gets,
                     posts>>

\* lines 245-252: client.post raises
PostRaises ==
    \E k \in 1 .. started :
      /\ CanComplete(k)
      /\ responses' = [responses EXCEPT ![k] =
              [done |-> TRUE,
               dip |-> [data_idx |-> inflight[k].data_idx, status_code |-> None,
                        error |-> "error", content |-> NoneObj],
               stat |-> [NewDataPointRetryStat(inflight[k].data_idx) EXCEPT
                            !.error = "error", !.end_time = "set"]]]
      /\ UNCHANGED <<joined, pair, cfg, x, heap, pc, batch_retry_idx, dp_idx, revision,
                     prev_revision, predictions, tasks, started, inflight, stats,
                     result, appRevision, fetched, sent, gets, posts>>

\* (mutation) the early return taken as soon as one slot is filled
SomeFilled(preds) == \E i \in DOMAIN preds : preds[i] # [kind |-> "None"]

\* (mutation) the early return left out
AllFilledNever(preds) == FALSE

\* (mutation) an empty list of slots taken as not filled
AllFilledNonEmpty(preds) ==
    /\ DOMAIN preds # {}
    /\ \A i \in DOMAIN preds : preds[i] # NoneObj

\* line 146: None not in predictions
AllFilled(preds) == \A i \in DOMAIN preds : preds[i] # NoneObj

\* (mutation) the return of __predict_batch_sequentially inside its loop:
\* the sequential wave returns with the first response
WaveReturnedFirst ==
    IF cfg.sequential
    THEN Len(tasks) = 0 \/ (started >= 1 /\ responses[1].done)
    ELSE started = Len(tasks) /\ \A k \in 1 .. Len(tasks) : responses[k].done

\* (mutation) asyncio.wait(..., return_when=FIRST_COMPLETED) for gather: the
\* concurrent wave returns with the first response
WaveReturnedAnyDone ==
    /\ started = Len(tasks)
    /\ IF cfg.sequential
       THEN \A k \in 1 .. Len(tasks) : responses[k].done
       ELSE Len(tasks) = 0 \/ \E k \in 1 .. Len(tasks) : responses[k].done

\* lines 134 and 138: the await of the wave returns: every task's __predict
\* has been started and has returned (lines 195-196 and 202-212)
WaveReturned ==
    /\ started = Len(tasks)
    /\ \A k \in 1 .. Len(tasks) : responses[k].done

\* (mutation) records kept only of the attempts that got a response
JoinDropsErrors ==
    /\ pc = "dispatch"
    /\ WaveReturned
    /\ LET returned == SelectSeq(responses, LAMBDA r : r.done)
           answered == SelectSeq(returned, LAMBDA r : r.dip.status_code # None)
           data_point_retry_stats == [k \in 1 .. Len(answered) |-> answered[k].stat]
           appended == [stats EXCEPT ![Len(stats)].data_point_retries =
                                         @ \o data_point_retry_stats]
       IN  /\ predictions' = AssignPredictions(predictions, returned)
           /\ IF AllFilled(predictions')
              THEN /\ stats' = [appended EXCEPT ![Len(stats)].end_time = "set"]
                   /\ result' = [kind |-> "list", value |-> predictions']
                   /\ pc' = "done"
                   /\ dp_idx' = dp_idx
              ELSE /\ stats' = appended
                   /\ result' = result
                   /\ pc' = "wave"
                   /\ dp_idx' = dp_idx + 1
    /\ joined' = Append(joined, [round |-> batch_retry_idx + 1, wave |-> dp_idx + 1,
                                 requests |-> {inflight[k] : k \in DOMAIN inflight},
                                 slots |-> predictions'])
    /\ UNCHANGED <<pair, cfg, x, heap, batch_retry_idx, revision, prev_revision, tasks,
                   started, inflight, responses, appRevision, fetched, sent, gets,
                   posts>>

\* lines 134-148: the wave is joined: slots, stats, and the early return
Join ==
    /\ pc = "dispatch"
    /\ WaveReturned
    /\ LET returned == SelectSeq(responses, LAMBDA r : r.done)
           data_point_retry_stats == [k \in 1 .. Len(returned) |-> returned[k].stat]
           appended == [stats EXCEPT ![Len(stats)].data_point_retries =
                                         @ \o data_point_retry_stats]
       IN  /\ predictions' = AssignPredictions(predictions, returned)
           /\ IF AllFilled(predictions')
              THEN /\ stats' = [appended EXCEPT ![Len(stats)].end_time = "set"]
                   /\ result' = [kind |-> "list", value |-> predictions']
                   /\ pc' = "done"
                   /\ dp_idx' = dp_idx
              ELSE /\ stats' = appended
                   /\ result' = result
                   /\ pc' = "wave"
                   /\ dp_idx' = dp_idx + 1
    /\ joined' = Append(joined, [round |-> batch_retry_idx + 1, wave |-> dp_idx + 1,
                                 requests |-> {inflight[k] : k \in DOMAIN inflight},
                                 slots |-> predictions'])
    /\ UNCHANGED <<pair, cfg, x, heap, batch_retry_idx, revision, prev_revision, tasks,
                   started, inflight, responses, appRevision, fetched, sent, gets,
                   posts>>

\* (mutation) the exhausted round is left without its end time
EndRoundLeftOpen ==
    /\ pc = "wave"
    /\ dp_idx >= cfg.data_point_retry
    /\ stats' = stats
    /\ batch_retry_idx' = batch_retry_idx + 1
    /\ pc' = "round"
    /\ UNCHANGED <<joined, pair, cfg, x, heap, dp_idx, revision, prev_revision, predictions,
                   tasks, started, inflight, responses, result, appRevision,
                   fetched, sent, gets, posts>>

\* (mutation) the slots cleared when the inner loop is exhausted
EndRoundResets ==
    /\ pc = "wave"
    /\ dp_idx >= cfg.data_point_retry
    /\ stats' = SetCur("end_time", "set")
    /\ predictions' = ResetPredictions(cfg.n)
    /\ batch_retry_idx' = batch_retry_idx + 1
    /\ pc' = "round"
    /\ UNCHANGED <<joined, pair, cfg, x, heap, dp_idx, revision, prev_revision,
                   tasks, started, inflight, responses, result, appRevision,
                   fetched, sent, gets, posts>>

\* line 150: the inner loop is exhausted
EndRound ==
    /\ pc = "wave"
    /\ dp_idx >= cfg.data_point_retry
    /\ stats' = SetCur("end_time", "set")
    /\ batch_retry_idx' = batch_retry_idx + 1
    /\ pc' = "round"
    /\ UNCHANGED <<joined, pair, cfg, x, heap, dp_idx, revision, prev_revision, predictions,
                   tasks, started, inflight, responses, result, appRevision,
                   fetched, sent, gets, posts>>

\* (mutation) the slots returned when the rounds are exhausted
ReturnPredictions ==
    /\ pc = "round"
    /\ batch_retry_idx >= cfg.batch_retry
    /\ result' = [kind |-> "list", value |-> predictions]
    /\ pc' = "done"
    /\ UNCHANGED <<joined, pair, cfg, x, heap, batch_retry_idx, dp_idx, revision, prev_revision,
                   predictions, tasks, started, inflight, responses, stats,
                   appRevision, fetched, sent, gets, posts>>

\* (mutation) after the last round the slots are returned when none is empty
ReturnFilledAtTheEnd ==
    /\ pc = "round"
    /\ batch_retry_idx >= cfg.batch_retry
    /\ result' = IF AllFilled(predictions)
                 THEN [kind |-> "list", value |-> predictions]
                 ELSE NoneObj
    /\ pc' = "done"
    /\ UNCHANGED <<joined, pair, cfg, x, heap, batch_retry_idx, dp_idx, revision, prev_revision,
                   predictions, tasks, started, inflight, responses, stats,
                   appRevision, fetched, sent, gets, posts>>

\* lines 152-155: the outer loop is exhausted
ReturnNone ==
    /\ pc = "round"
    /\ batch_retry_idx >= cfg.batch_retry
    /\ result' = NoneObj
    /\ pc' = "done"
    /\ UNCHANGED <<joined, pair, cfg, x, heap, batch_retry_idx, dp_idx, revision, prev_revision,
                   predictions, tasks, started, inflight, responses, stats,
                   appRevision, fetched, sent, gets, posts>>

\* the serving application is redeployed with another revision
RevisionChange ==
    /\ cfg.gated
    /\ pc \notin {"done", "raised"}
    /\ appRevision' \in Revs \ {appRevision}
    /\ UNCHANGED <<joined, pair, cfg, x, heap, pc, batch_retry_idx, dp_idx, revision,
                   prev_revision, predictions, tasks, started, inflight, responses,
                   stats, result, fetched, sent, gets, posts>>

Next ==
    \/ CheckInput
    \/ NextRound
    \/ FetchOk
    \/ FetchFail
    \/ RecordRevisionError
    \/ NextWave
    \/ StartPredict
    \/ PostAnswered
    \/ PostRaises
    \/ Join
    \/ EndRound
    \/ ReturnNone
    \/ RevisionChange

Spec == Init /\ [][Next]_vars

\* ------------------------------------------------------------------ claims
\* skip mode as the documentation of skip_revision_for_single_point states it
SkipMode == cfg.skip /\ cfg.n = 1

\* the rounds (positions of fetched) whose revision fetch succeeded
OkRounds(f) == {k \in DOMAIN f : f[k].kind = "ok"}

MaxOf(S) == CHOOSE m \in S : \A k \in S : k <= m

\* the positions of the filled slots
Filled(preds) == {i \in DOMAIN preds : preds[i] # NoneObj}

\* the round the coroutine is in (1-based) while it fetches or dispatches
CurRound == batch_retry_idx + 1

\* some attempt of round r was answered 200
RoundHad200(r) ==
    \E k \in DOMAIN stats[r].data_point_retries :
        stats[r].data_point_retries[k].status_code = "200"

\* C1: with revision checking active, every element of a returned result was
\* taken from a status-200 response to a POST whose x-model-revision header
\* equals the revision returned by the most recent successful revision fetch.
C1_ResultUnderFetchedRevision ==
    (pc = "done" /\ result # NoneObj /\ ~SkipMode) =>
        \A i \in Indices :
            /\ result.value[i].status = "200"
            /\ OkRounds(fetched) # {}
            /\ result.value[i].headers.x_model_revision
                   = fetched[MaxOf(OkRounds(fetched))].value

\* C2: against servers running the middleware, whose revision may change at
\* any moment, a slot is filled only by a POST handled by a server whose
\* revision at handling time equals the x-model-revision header sent, and all
\* filled slots were computed under one and the same server revision.
C2_FilledUnderServedRevision ==
    (cfg.gated /\ ~SkipMode) =>
        /\ \A i \in Filled(predictions) :
              predictions[i].served = predictions[i].headers.x_model_revision
        /\ \A i, j \in Filled(predictions) :
              predictions[i].served = predictions[j].served
        /\ (pc = "done" /\ result # NoneObj) => result.value = predictions

\* C2 witness: a full result of two items accepted from the gated server in
\* a call during which the revision changed after an attempt was answered 200
C2_Witness ==
    /\ cfg.gated /\ ~SkipMode /\ cfg.n = 2
    /\ pc = "done" /\ result # NoneObj
    /\ \E k, l \in OkRounds(fetched) :
          k < l /\ fetched[k].value # fetched[l].value /\ RoundHad200(k)

\* the fetch of the current round succeeded with a value different from the
\* last successfully fetched one (or there was no successful fetch before)
CurFetchChanged ==
    /\ Len(fetched) = CurRound
    /\ fetched[CurRound].kind = "ok"
    /\ LET before == OkRounds(fetched) \ {CurRound}
       IN  before # {} => fetched[MaxOf(before)].value # fetched[CurRound].value

\* C3: in a round whose fetch returned a changed revision every slot is empty
\* before the first dispatch, and the first wave dispatches every index.
C3_ChangedRevisionResetsAll ==
    (pc \in {"wave", "dispatch"} /\ dp_idx = 0 /\ CurFetchChanged) =>
        /\ Filled(predictions) = {}
        /\ pc = "dispatch" => tasks = [i \in 1 .. cfg.n |-> <<i, revision>>]

\* C3 witness: the first wave of a round with a changed revision, after a
\* round in which an attempt had been answered 200
C3_Witness ==
    /\ pc = "dispatch" /\ dp_idx = 0 /\ CurFetchChanged
    /\ started = Len(tasks) /\ cfg.n = 2
    /\ \E r \in 1 .. CurRound - 1 : fetched[r].kind = "ok" /\ RoundHad200(r)

\* C4: a fetch that returns the last successfully fetched value leaves every
\* slot as it is; a filled slot changes only at a fetch that returns a changed
\* value; and no POST is started for an index whose slot is filled.
C4_UnchangedRevisionKeepsSlots ==
    [][ /\ ( /\ pc = "fetch" /\ pc' = "wave"
             /\ OkRounds(fetched) # {}
             /\ revision' = fetched[MaxOf(OkRounds(fetched))].value )
           => predictions' = predictions
        /\ \A i \in Filled(predictions) :
              predictions'[i] # predictions[i] =>
                  /\ pc = "fetch" /\ pc' = "wave"
                  /\ OkRounds(fetched) # {} =>
                         revision' # fetched[MaxOf(OkRounds(fetched))].value
        /\ started' = started + 1 =>
              predictions[inflight'[started'].data_idx] = NoneObj
      ]_vars

\* C4 witness: in a round whose fetch returned the previous value, a slot
\* filled in an earlier round is still filled while the other index is sent
C4_Witness ==
    /\ pc = "dispatch" /\ started = 1 /\ Len(tasks) = 1
    /\ Len(fetched) = CurRound /\ fetched[CurRound].kind = "ok"
    /\ ~CurFetchChanged
    /\ \E i \in Filled(predictions) : predictions[i].round < CurRound

\* rounds k, k+1, k+2 fetched r1, r2, r1 with r1 # r2
Comeback(k) ==
    /\ k + 2 <= Len(fetched)
    /\ \A j \in {k, k + 1, k + 2} : fetched[j].kind = "ok"
    /\ fetched[k].value = fetched[k + 2].value
    /\ fetched[k].value # fetched[k + 1].value

\* C5: when three consecutive rounds fetch r1, r2, r1, no slot filled before
\* the third round is in use from the third round on: every filled slot, and
\* every element of the returned result, is a response of the third round or
\* of a later one.
C5_ComebackInvalidates ==
    \A k \in DOMAIN fetched :
        Comeback(k) =>
            /\ \A i \in Filled(predictions) : predictions[i].round >= k + 2
            /\ (pc = "done" /\ result # NoneObj) =>
                  \A i \in Indices : result.value[i].round >= k + 2

\* C5 witness: a result returned in the third round of r1, r2, r1 although
\* the first round had an attempt answered 200
C5_Witness ==
    /\ pc = "done" /\ result # NoneObj /\ cfg.n >= 1
    /\ \E k \in DOMAIN fetched : Comeback(k) /\ RoundHad200(k) /\ RoundHad200(k + 1)

\* some attempt recorded so far was not answered 200
SomeAttemptFailed ==
    \E r \in DOMAIN stats : \E k \in DOMAIN stats[r].data_point_retries :
        stats[r].data_point_retries[k].status_code # "200"

\* C6: batch_predict returns either no result or a sequence of length exactly
\* len(x) whose position i holds the body of a 200 response for item i; a
\* sequence with an empty position is never returned.
C6_FullLengthOrNone ==
    pc = "done" =>
        \/ result = NoneObj
        \/ /\ result.kind = "list"
           /\ Len(result.value) = cfg.n
           /\ \A i \in Indices :
                 /\ result.value[i] # NoneObj
                 /\ result.value[i].data_idx = i
                 /\ result.value[i].status = "200"

\* C6 witness: a result of two items returned after some attempt had failed
C6_Witness ==
    /\ pc = "done" /\ result # NoneObj /\ cfg.n = 2
    /\ Len(result.value) = 2
    /\ SomeAttemptFailed

\* C7: dispatching an item does not change the caller's input, and every POST
\* of item i, in every wave and round, carries the (fields, attachments)
\* payload of the item as it was handed in.
C7_PayloadSameOnEveryAttempt ==
    /\ heap = [o \in ObjIds |-> FullDict]
    /\ \A i \in Indices : sent[i] \subseteq {Classify(x[i])}

\* C8: in every wave the indices dispatched are exactly the indices whose slot
\* is empty at the start of the wave, one POST each, so the number of dispatch
\* attempts of the wave equals the number of empty slots at its start.
C8_WaveDispatchesEmptySlots ==
    pc = "dispatch" =>
        LET empty == Indices \ Filled(predictions) IN
        /\ {tasks[k][1] : k \in DOMAIN tasks} = empty
        /\ Len(tasks) = Cardinality(empty)
        /\ started <= Len(tasks) /\ Len(inflight) = started
        /\ \A k \in 1 .. started : inflight[k].data_idx = tasks[k][1]
        /\ (\A k \in DOMAIN responses : responses[k].done) =>
              Len(inflight) = Cardinality(empty)

\* C8 witness: a joined-up wave of one POST while the other slot is filled
C8_Witness ==
    /\ pc = "dispatch" /\ cfg.n = 2
    /\ Cardinality(Filled(predictions)) = 1
    /\ started = 1 /\ responses[1].done

\* C9: every POST carries exactly one of the two protocol headers: x-dip: off
\* (and no x-model-revision) if and only if the call is in skip mode; in every
\* other call x-model-revision equal to the revision fetched at the start of
\* the round and no x-dip header, whatever the revision endpoint returned.
C9_ExactlyOneProtocolHeader ==
    pc = "dispatch" =>
        \A k \in DOMAIN inflight :
            LET h == inflight[k].headers IN
            /\ (h.x_dip = Absent) # (h.x_model_revision = Absent)
            /\ (h.x_dip = "off") <=> SkipMode
            /\ ~SkipMode =>
                  /\ h.x_dip = Absent
                  /\ h.x_model_revision = fetched[CurRound].value

\* C10: in skip mode no GET is issued at any point of the call, every round
\* record reports revision none and no revision error, and the item is
\* retried after a failed attempt: a call that returns no result has posted
\* it batch_retry * data_point_retry times.
C10_SkipModeNeverFetches ==
    SkipMode =>
        /\ gets = 0
        /\ pc # "fetch"
        /\ \A r \in DOMAIN stats :
              stats[r].revision = None /\ stats[r].revision_error = None
        /\ (pc = "done" /\ result = NoneObj) =>
              posts = cfg.batch_retry * cfg.data_point_retry

\* C10 witness: a skip-mode call that returned a result in its second round
C10_Witness ==
    /\ SkipMode /\ pc = "done" /\ result # NoneObj
    /\ Len(stats) = 2 /\ posts >= 2 /\ gets = 0

\* an answer to the revision GET with which the fetch fails: a transport
\* exception, a status other than 200, a body that is not JSON, or a JSON body
\* without the revision key
FailingAnswer(a) ==
    \/ a.kind = "exception"
    \/ a.kind = "response" /\ (a.status # "200" \/ ~a.json \/ ~a.has_revision)

\* every round record is closed
AllRoundsClosed == \A r \in DOMAIN stats : stats[r].end_time # None

\* C11: if the revision fetch fails in every outer round, batch_predict
\* returns no result after exactly batch_retry GETs and no POST, and the
\* returned stats hold exactly batch_retry round records (each closed, with
\* the error of its fetch and no attempt).
C11_AllFetchesFail ==
    (pc = "done" /\ \A k \in DOMAIN fetched : FailingAnswer(fetched[k].answer)) =>
        /\ result = NoneObj
        /\ gets = cfg.batch_retry
        /\ posts = 0
        /\ Len(stats) = cfg.batch_retry
        /\ AllRoundsClosed
        /\ \A r \in DOMAIN stats :
              /\ stats[r].revision_error # None
              /\ stats[r].data_point_retries = << >>

\* three rounds, each with another kind of failed fetch, and the call over
C11_Witness ==
    /\ pc = "done" /\ cfg.batch_retry = 3 /\ cfg.n >= 1 /\ cfg.data_point_retry >= 1
    /\ Len(fetched) = 3
    /\ \A k \in DOMAIN fetched : FailingAnswer(fetched[k].answer)
    /\ Cardinality({stats[r].revision_error : r \in DOMAIN stats}) = 3

\* C12: a round whose revision fetch fails consumes exactly one of the
\* batch_retry rounds, issues no POST and does not end the call: the step that
\* takes the failing answer enters the exception handler, which moves to the
\* head of the next round, neither touching slots, result or POST count; no
\* attempt is ever recorded in such a round; and at the head of a round that
\* is still within batch_retry the call cannot return but starts the round,
\* which (outside skip mode) issues a GET.
C12_FailedFetchSpendsOneRound ==
    /\ [][ ( /\ pc = "fetch"
             /\ Len(fetched') = Len(fetched) + 1
             /\ FailingAnswer(fetched'[Len(fetched')].answer) ) =>
           ( /\ pc' = "except"
             /\ batch_retry_idx' = batch_retry_idx
             /\ posts' = posts
             /\ predictions' = predictions
             /\ result' = result ) ]_vars
    /\ [][ (pc = "except" /\ pc' # "except") =>
           ( /\ batch_retry_idx' = batch_retry_idx + 1
             /\ pc' = "round"
             /\ posts' = posts
             /\ predictions' = predictions
             /\ result' = result ) ]_vars
    /\ [][ (pc = "round" /\ pc' # "round" /\ batch_retry_idx < cfg.batch_retry) =>
           ( /\ Len(stats') = Len(stats) + 1
             /\ IF SkipMode THEN gets' = gets /\ pc' = "wave"
                ELSE gets' = gets + 1 /\ pc' = "fetch" ) ]_vars
    /\ [](\A r \in DOMAIN fetched :
             FailingAnswer(fetched[r].answer) => stats[r].data_point_retries = << >>)
    /\ []((pc = "round" /\ batch_retry_idx < cfg.batch_retry) =>
             (ENABLED NextRound /\ ~ENABLED ReturnNone))

\* two failed fetches, then a successful one and a POST answered 200 for each
\* of the two items: the full result is returned
C12_Witness ==
    /\ pc = "done" /\ result # NoneObj /\ cfg.n = 2
    /\ Len(fetched) = 3
    /\ FailingAnswer(fetched[1].answer) /\ FailingAnswer(fetched[2].answer)
    /\ fetched[3].kind = "ok"
    /\ gets = 3 /\ posts = 2
    /\ Filled(result.value) = Indices

\* every revision fetch of the call succeeded, with one and the same value
ConstantRevision ==
    \A k, l \in DOMAIN fetched :
        fetched[k].kind = "ok" /\ fetched[k].value = fetched[l].value

\* no attempt of the call was answered 200
EveryPostFailed ==
    \A r \in DOMAIN stats :
        \A k \in DOMAIN stats[r].data_point_retries :
            stats[r].data_point_retries[k].status_code # "200"

\* C13: if the call is over and some slot is still empty, all batch_retry
\* rounds were run, no result is returned and the stats hold a closed record
\* for every round; when moreover the revision is constant and every POST
\* failed, exactly batch_retry GETs and n * data_point_retry * batch_retry
\* POSTs were issued (n * data_point_retry attempts recorded per round).
C13_ExhaustedReturnsNone ==
    /\ (pc = "done" /\ Filled(predictions) # Indices) =>
          /\ result = NoneObj
          /\ batch_retry_idx = cfg.batch_retry
          /\ Len(stats) = cfg.batch_retry
          /\ AllRoundsClosed
    /\ (pc = "done" /\ cfg.n >= 1 /\ ~SkipMode /\ ConstantRevision
           /\ EveryPostFailed) =>
          /\ result = NoneObj
          /\ gets = cfg.batch_retry
          /\ posts = cfg.n * cfg.data_point_retry * cfg.batch_retry
          /\ \A r \in DOMAIN stats :
                Len(stats[r].data_point_retries) = cfg.n * cfg.data_point_retry

\* two items, three rounds of one wave under a constant revision, and none of
\* the six POSTs answered 200
C13_Witness ==
    /\ pc = "done" /\ result = NoneObj /\ ~SkipMode
    /\ cfg.n = 2 /\ cfg.batch_retry = 3 /\ cfg.data_point_retry = 1
    /\ ConstantRevision /\ EveryPostFailed
    /\ gets = 3 /\ posts = 6

\* C14: the step that joins a wave and leaves no slot empty returns these
\* slots and closes the round's record, without a GET or POST; once the call
\* has returned nothing further happens; and while the call runs on a batch
\* with at least one item some slot is empty (a filled batch is never carried
\* into a further wave, fetch or round).
C14_ReturnsAsSoonAsFilled ==
    /\ [][ (pc = "dispatch" /\ pc' # "dispatch"
              /\ Filled(predictions') = Indices) =>
           ( /\ pc' = "done"
             /\ result' = [kind |-> "list", value |-> predictions']
             /\ stats'[Len(stats')].end_time # None
             /\ Len(stats') = Len(stats)
             /\ gets' = gets /\ posts' = posts
             /\ batch_retry_idx' = batch_retry_idx /\ dp_idx' = dp_idx ) ]_vars
    /\ [](pc = "done" => ~ENABLED Next)
    /\ []((cfg.n >= 1 /\ pc \in {"round", "fetch", "wave", "dispatch"}) =>
             Filled(predictions) # Indices)

\* a result returned from the first wave of the first round while further
\* waves and rounds were allowed
C14_Witness ==
    /\ pc = "done" /\ result # NoneObj /\ cfg.n >= 1
    /\ batch_retry_idx + 1 < cfg.batch_retry
    /\ dp_idx + 1 < cfg.data_point_retry
    /\ Len(stats) = 1 /\ stats[1].end_time # None
    /\ Len(stats[1].data_point_retries) = cfg.n

Errored(k) == responses[k].done /\ responses[k].dip.error # None

\* C16: an exception raised by an item's POST never leaves batch_predict (a
\* call on a list never ends by raising); it becomes a response and an attempt
\* record with an error string and no status code; when the wave is joined
\* the record is appended to the round's record, the item's slot is empty and
\* the call goes on to the next wave head; and the wave that follows holds a
\* task for every empty slot.
C16_PostExceptionRecorded ==
    /\ [](cfg.input = "list" => pc # "raised")
    /\ [](pc = "dispatch" =>
            \A k \in DOMAIN responses :
                Errored(k) =>
                    /\ responses[k].dip.status_code = None
                    /\ responses[k].dip.content = NoneObj
                    /\ responses[k].dip.data_idx = tasks[k][1]
                    /\ responses[k].stat.error = responses[k].dip.error
                    /\ responses[k].stat.status_code = None
                    /\ responses[k].stat.data_idx = tasks[k][1]
                    /\ responses[k].stat.end_time # None)
    /\ [][ (pc = "dispatch" /\ pc' \in {"wave", "done"}) =>
             \A k \in DOMAIN responses :
                 Errored(k) =>
                    /\ pc' = "wave"
                    /\ predictions'[tasks[k][1]] = NoneObj
                    /\ LET now == stats'[Len(stats')].data_point_retries
                       IN  now[Len(now) - Len(tasks) + k] = responses[k].stat ]_vars
    /\ [][ (pc = "wave" /\ pc' = "dispatch") =>
             \A i \in Indices :
                 predictions[i] = NoneObj => \E k \in DOMAIN tasks' : tasks'[k][1] = i ]_vars

\* one item whose first POST raised and whose second POST, in the next wave,
\* was answered 200
C16_Witness ==
    /\ pc = "done" /\ result # NoneObj /\ cfg.n = 1
    /\ Len(stats) = 1 /\ Len(stats[1].data_point_retries) = 2
    /\ stats[1].data_point_retries[1].error # None
    /\ stats[1].data_point_retries[1].status_code = None
    /\ stats[1].data_point_retries[2].status_code = "200"
    /\ result.value[1].wave = 2

\* C17: a filled slot holds the body of a response with status 200 to a
\* request for the slot's own index; the join of a wave leaves the slot of
\* every response without status 200 (another status, with its body, or a
\* transport error) as empty as it was; and no element of a returned result
\* is the body of a response with another status.
C17_OnlyStatus200Fills ==
    /\ [](\A i \in Filled(predictions) :
             /\ predictions[i].kind = "bytes"
             /\ predictions[i].status = "200"
             /\ predictions[i].data_idx = i)
    /\ []((pc = "done" /\ result # NoneObj) =>
             \A i \in DOMAIN result.value :
                 result.value[i] # NoneObj /\ result.value[i].status = "200")
    /\ [][ (pc = "dispatch" /\ pc' \in {"wave", "done"}) =>
             \A k \in DOMAIN responses :
                 responses[k].dip.status_code # "200" =>
                    /\ predictions[responses[k].dip.data_idx] = NoneObj
                    /\ predictions'[responses[k].dip.data_idx] = NoneObj ]_vars

\* a wave of two items joined: one answered 400 with a body, the other with a
\* transport error, and both slots are empty
C17_Witness ==
    /\ pc = "wave" /\ dp_idx >= 1 /\ cfg.n = 2 /\ Len(responses) = 2
    /\ responses[1].dip.status_code = "400"
    /\ responses[1].dip.content # NoneObj
    /\ responses[2].dip.error # None
    /\ Filled(predictions) = {}

\* Scenario C: one item outside skip mode, three rounds whose fetches
\* returned "1", "2", "1"
ScenarioC ==
    /\ cfg.n = 1 /\ ~SkipMode
    /\ Len(fetched) = 3
    /\ \A k \in 1 .. 3 : fetched[k].kind = "ok"
    /\ fetched[1].value = "1" /\ fetched[2].value = "2" /\ fetched[3].value = "1"

SequenceKinds == {"list", "tuple", "str"}

\* a call that was refused at its input check: nothing fetched, nothing
\* posted, no round record, no result
NothingDone ==
    /\ gets = 0 /\ posts = 0
    /\ stats = << >> /\ fetched = << >>
    /\ result = NoneObj

\* C19 as stated: an input that is not a sequence is refused before any
\* network activity and without stats, and every input that is a sequence is
\* accepted (the call never ends with the input-kind error).
C19_EverySequenceAccepted ==
    /\ cfg.input \notin SequenceKinds => (pc \in {"start", "raised"} /\ NothingDone)
    /\ cfg.input \in SequenceKinds => pc # "raised"

\* C19 (amended): an input that is not a list, be it a sequence of another
\* kind or no sequence at all, is refused with the input-kind error before any
\* network activity and without stats; every list, the empty one included, is
\* accepted.
C19_InputCheck ==
    /\ cfg.input # "list" => (pc \in {"start", "raised"} /\ NothingDone)
    /\ cfg.input = "list" => pc # "raised"
    /\ pc = "raised" => NothingDone

\* the call of the test: a str as x, refused
C19_Witness == pc = "raised" /\ cfg.input = "str" /\ NothingDone

\* ------------------------------------------------- a pair of calls compared
\* Two calls of batch_predict with the same arguments and input, the first
\* with sequential dispatch and the second with asyncio.gather, against one
\* and the same environment: an endpoint without the middleware whose answer
\* to the GET of a round depends only on the round, and whose answer to a
\* POST depends only on (round, wave, index).
PairMaxBatchRetry == 2
PairMaxPosts == 4

\* what a POST may come to: a status code of the handler, or an exception
PostOutcomes == HandlerStatuses \cup {"raise"}

PairConfigs ==
    {c \in Configs :
        /\ c.input = "list" /\ ~c.gated /\ c.sequential
        /\ c.batch_retry <= PairMaxBatchRetry
        /\ c.n * c.batch_retry * c.data_point_retry <= PairMaxPosts}

\* the environments of a configuration
Envs(c) ==
    [get : [1 .. c.batch_retry -> EndpointGetAnswers],
     post : [(1 .. c.batch_retry) \X (1 .. c.data_point_retry) \X (1 .. c.n)
                -> PostOutcomes]]

PairInit ==
    /\ cfg \in PairConfigs
    /\ x \in Inputs(cfg.n)
    /\ appRevision \in Revs
    /\ InitCall
    /\ pair \in [phase : {1}, env : Envs(cfg), first : {NoPair}]

\* the GET of the round is answered as the environment has it
GetAgrees == fetched'[Len(fetched')].answer = pair.env.get[batch_retry_idx + 1]

\* what the response of a task reports of its POST
Outcome(r) == IF r.dip.error # None THEN "raise" ELSE r.dip.status_code

\* the POST that is answered in this step is answered as the environment has it
PostAgrees ==
    \A k \in DOMAIN responses :
        (~responses[k].done /\ responses'[k].done) =>
            Outcome(responses'[k])
                = pair.env.post[<<batch_retry_idx + 1, dp_idx + 1, inflight[k].data_idx>>]

PairFetchOk == FetchOk /\ GetAgrees
PairFetchFail == FetchFail /\ GetAgrees
PairPostAnswered == PostAnswered /\ PostAgrees
PairPostRaises == PostRaises /\ PostAgrees

\* a call is over: what it returned and did is kept, and a further call
\* starts with the arguments c on a fresh copy of the input
Restart(c) ==
    /\ pair.phase = 1
    /\ pc = "done"
    /\ pair' = [pair EXCEPT !.phase = 2,
                            !.first = [result |-> result, stats |-> stats,
                                       joined |-> joined, fetched |-> fetched,
                                       gets |-> gets, posts |-> posts,
                                       sent |-> sent]]
    /\ cfg' = c
    /\ heap' = [o \in ObjIds |-> FullDict]
    /\ pc' = "start"
    /\ batch_retry_idx' = 0
    /\ dp_idx' = 0
    /\ revision' = None
    /\ prev_revision' = None
    /\ predictions' = ResetPredictions(cfg.n)
    /\ tasks' = << >>
    /\ started' = 0
    /\ inflight' = << >>
    /\ responses' = << >>
    /\ stats' = << >>
    /\ result' = NoneObj
    /\ fetched' = << >>
    /\ sent' = [i \in 1 .. cfg.n |-> {}]
    /\ gets' = 0
    /\ posts' = 0
    /\ joined' = << >>
    /\ UNCHANGED <<x, appRevision>>

\* the first call is over and the second call starts, on a RemoteModel with
\* the same arguments but sequential=False
SecondCall == Restart([cfg EXCEPT !.sequential = FALSE])

PairNext ==
    \/ CheckInput
    \/ NextRound
    \/ PairFetchOk
    \/ PairFetchFail
    \/ RecordRevisionError
    \/ NextWave
    \/ StartPredict
    \/ PairPostAnswered
    \/ PairPostRaises
    \/ Join
    \/ EndRound
    \/ ReturnNone
    \/ SecondCall

PairSpec == PairInit /\ [][PairNext]_vars

IsPrefix(s, t) == Len(s) <= Len(t) /\ SubSeq(t, 1, Len(s)) = s

\* the tasks of the wave whose POST is in flight
InFlight == {k \in 1 .. started : ~responses[k].done}

\* C20: of two calls with the same arguments and input against the same
\* environment, one dispatching sequentially and one concurrently, the second
\* does at every moment what the first did: its fetches, the slots after each
\* of its waves and its closed round records are a prefix of the first
\* call's; when it is over, the returned result, the slots after every wave,
\* the GETs and POSTs (in total and, with the records, per round), the
\* payloads sent and the round records with their attempt records are the
\* same.  The sequential call has at most one POST in flight at a time.
C20_ModesAgree ==
    /\ pair.phase = 2 =>
          /\ IsPrefix(joined, pair.first.joined)
          /\ IsPrefix(fetched, pair.first.fetched)
          /\ Len(stats) <= Len(pair.first.stats)
          /\ \A r \in 1 .. Len(stats) - 1 : stats[r] = pair.first.stats[r]
          /\ gets <= pair.first.gets /\ posts <= pair.first.posts
          /\ pc = "done" =>
                /\ result = pair.first.result
                /\ joined = pair.first.joined
                /\ fetched = pair.first.fetched
                /\ stats = pair.first.stats
                /\ gets = pair.first.gets /\ posts = pair.first.posts
                /\ sent = pair.first.sent
    /\ (pair.phase = 1 /\ pc = "dispatch") => Cardinality(InFlight) <= 1

\* both calls over, each having returned the two-item result after an
\* attempt that failed and was repeated
C20_Witness ==
    /\ pair.phase = 2 /\ pc = "done" /\ result # NoneObj /\ cfg.n = 2
    /\ ~cfg.sequential
    /\ result = pair.first.result
    /\ posts >= 3 /\ Len(joined) >= 2
    /\ \E r \in DOMAIN stats : \E k \in DOMAIN stats[r].data_point_retries :
          stats[r].data_point_retries[k].status_code # "200"

\* the wave is not over: a task has not started yet or its POST is in flight
WaveOpen == pc = "dispatch" /\ (started < Len(tasks) \/ InFlight # {})

\* C21: under concurrent dispatch, a step taken while the wave is not over
\* changes no slot, no round record and no result, and starts neither a wave
\* nor a round nor a GET: the call stays in the dispatch of the same tasks.
C21_WaveJoinedBeforeWrites ==
    [][ (~cfg.sequential /\ WaveOpen) =>
        ( /\ predictions' = predictions
          /\ stats' = stats
          /\ result' = result
          /\ joined' = joined
          /\ pc' = "dispatch"
          /\ tasks' = tasks
          /\ dp_idx' = dp_idx /\ batch_retry_idx' = batch_retry_idx
          /\ gets' = gets /\ fetched' = fetched /\ revision' = revision ) ]_vars

\* two POSTs of a concurrent wave, the second answered 200 while the first is
\* still in flight: the second item's slot is still empty
C21_Witness ==
    /\ ~cfg.sequential /\ pc = "dispatch" /\ started = 2
    /\ InFlight = {1}
    /\ responses[2].done /\ responses[2].dip.status_code = "200"
    /\ predictions[tasks[2][1]] = NoneObj
    /\ stats[Len(stats)].data_point_retries = << >>

\* ------------------------------------------- two calls on one RemoteModel
\* Two calls of batch_predict on the same RemoteModel with the same input, as
\* two coroutines of one event loop: one of them runs, the other is suspended
\* with its locals in its frame (pair.other).  The calls share the
\* RemoteModel (cfg), the caller's input objects (x, heap) and the server, an
\* endpoint without the middleware.
\* Run one after the other or interleaved at their awaits.
ShareMaxBatchRetry == 1
ShareMaxPosts == 2

ShareConfigs ==
    {c \in Configs :
        /\ ~c.gated
        /\ c.batch_retry <= ShareMaxBatchRetry
        /\ c.n * c.batch_retry * c.data_point_retry <= ShareMaxPosts}

\* the locals of the running call (and the history kept of it)
CurrentFrame ==
    [pc |-> pc, batch_retry_idx |-> batch_retry_idx, dp_idx |-> dp_idx,
     revision |-> revision, prev_revision |-> prev_revision,
     predictions |-> predictions, tasks |-> tasks, started |-> started,
     inflight |-> inflight, responses |-> responses, stats |-> stats,
     result |-> result, fetched |-> fetched, sent |-> sent, gets |-> gets,
     posts |-> posts, joined |-> joined]

\* the frame of a call that has been made and has not run yet
NewFrame(n) ==
    [pc |-> "start", batch_retry_idx |-> 0, dp_idx |-> 0,
     revision |-> None, prev_revision |-> None,
     predictions |-> ResetPredictions(n), tasks |-> << >>, started |-> 0,
     inflight |-> << >>, responses |-> << >>, stats |-> << >>,
     result |-> NoneObj, fetched |-> << >>, sent |-> [i \in 1 .. n |-> {}],
     gets |-> 0, posts |-> 0, joined |-> << >>]

ShareInit ==
    /\ cfg \in ShareConfigs
    /\ x \in Inputs(cfg.n)
    /\ appRevision = "1"   \* plays no part without the middleware
    /\ InitCall
    /\ pair = [phase |-> 3, other |-> NewFrame(cfg.n)]

\* the running call is at an await (of the GET, of its POSTs) or over
AtAwait == pc \in {"fetch", "dispatch", "done", "raised"}

\* (mutation) revision kept on the RemoteModel (self.revision) instead of in
\* a local: the call that resumes finds what the other call left there
SwitchSharedRevision ==
    /\ pair.phase = 3
    /\ AtAwait
    /\ pair.other.pc \notin {"done", "raised"}
    /\ pair' = [pair EXCEPT !.other = CurrentFrame]
    /\ pc' = pair.other.pc
    /\ batch_retry_idx' = pair.other.batch_retry_idx
    /\ dp_idx' = pair.other.dp_idx
    /\ revision' = revision
    /\ prev_revision' = pair.other.prev_revision
    /\ predictions' = pair.other.predictions
    /\ tasks' = pair.other.tasks
    /\ started' = pair.other.started
    /\ inflight' = pair.other.inflight
    /\ responses' = pair.other.responses
    /\ stats' = pair.other.stats
    /\ result' = pair.other.result
    /\ fetched' = pair.other.fetched
    /\ sent' = pair.other.sent
    /\ gets' = pair.other.gets
    /\ posts' = pair.other.posts
    /\ joined' = pair.other.joined
    /\ UNCHANGED <<cfg, x, heap, appRevision>>

\* lines 100-108: everything batch_predict works on is a local of the call;
\* the event loop suspends the running call at an await and resumes the other
Switch ==
    /\ pair.phase = 3
    /\ AtAwait
    /\ pair.other.pc \notin {"done", "raised"}
    /\ pair' = [pair EXCEPT !.other = CurrentFrame]
    /\ pc' = pair.other.pc
    /\ batch_retry_idx' = pair.other.batch_retry_idx
    /\ dp_idx' = pair.other.dp_idx
    /\ revision' = pair.other.revision
    /\ prev_revision' = pair.other.prev_revision
    /\ predictions' = pair.other.predictions
    /\ tasks' = pair.other.tasks
    /\ started' = pair.other.started
    /\ inflight' = pair.other.inflight
    /\ responses' = pair.other.responses
    /\ stats' = pair.other.stats
    /\ result' = pair.other.result
    /\ fetched' = pair.other.fetched
    /\ sent' = pair.other.sent
    /\ gets' = pair.other.gets
    /\ posts' = pair.other.posts
    /\ joined' = pair.other.joined
    /\ UNCHANGED <<cfg, x, heap, appRevision>>

ShareNext ==
    \/ CheckInput
    \/ NextRound
    \/ FetchOk
    \/ FetchFail
    \/ RecordRevisionError
    \/ NextWave
    \/ StartPredict
    \/ PostAnswered
    \/ PostRaises
    \/ Join
    \/ EndRound
    \/ ReturnNone
    \/ Switch

ShareSpec == ShareInit /\ [][ShareNext]_vars

\* the number of attempt records in the round records st
RECURSIVE AttemptCount(_)
AttemptCount(st) ==
    IF st = << >> THEN 0
    ELSE Len(st[1].data_point_retries) + AttemptCount(Tail(st))

\* what a call holds is its own: its round records count its own GETs, its
\* attempt records its own POSTs, and a filled slot has a 200 attempt of its own
OwnWork(f) ==
    /\ ~SkipMode => f.gets = Len(f.stats)
    /\ f.pc \in {"round", "wave", "done"} => AttemptCount(f.stats) = f.posts
    /\ \A i \in Filled(f.predictions) :
          \E r \in DOMAIN f.stats : \E k \in DOMAIN f.stats[r].data_point_retries :
             /\ f.stats[r].data_point_retries[k].data_idx = i
             /\ f.stats[r].data_point_retries[k].status_code = "200"

\* C22: of two calls on one RemoteModel with the same input, each starts with
\* all slots empty, no revision and no stats, however far the other call has
\* come or however it ended; each fetches the revision itself and its first
\* wave dispatches every item; what each holds (slots, stats, counts) stems
\* from its own requests; and a call that is resumed finds its slots,
\* revision, stats and all other locals exactly as it left them, while the
\* ones of the suspended call are kept as they are.
C22_CallsShareNothing ==
    /\ [](pc = "start" => CurrentFrame = NewFrame(cfg.n))
    /\ [](pair.other.pc = "start" => pair.other = NewFrame(cfg.n))
    /\ []((pc = "dispatch" /\ batch_retry_idx = 0 /\ dp_idx = 0) =>
             /\ tasks = [i \in Indices |-> <<i, revision>>]
             /\ ~SkipMode => (gets = 1 /\ revision = fetched[1].value))
    /\ [](OwnWork(CurrentFrame) /\ OwnWork(pair.other))
    /\ [][ pair'.other # pair.other =>
             /\ CurrentFrame' = pair.other
             /\ pair'.other = CurrentFrame ]_vars

\* the second call on the same input after the first has returned its
\* result: it has fetched once, posted both items and returned a result too
C22_Witness ==
    /\ cfg.n = 2 /\ ~SkipMode
    /\ pair.other.pc = "done" /\ pair.other.result # NoneObj
    /\ pair.other.gets = 1 /\ pair.other.posts = 2
    /\ pc = "done" /\ result # NoneObj
    /\ gets = 1 /\ posts = 2

\* -------------------------------------------------- the same call twice
\* Two calls with the same arguments and input, one after the other, against
\* one and the same environment (as in PairSpec, but the second call is made
\* on the same arguments, sequential or not).
TwiceConfigs ==
    {c \in Configs :
        /\ c.input = "list" /\ ~c.gated
        /\ c.batch_retry <= PairMaxBatchRetry
        /\ c.n * c.batch_retry * c.data_point_retry <= PairMaxPosts}

TwiceInit ==
    /\ cfg \in TwiceConfigs
    /\ x \in Inputs(cfg.n)
    /\ appRevision = "1"   \* plays no part without the middleware
    /\ InitCall
    /\ pair \in [phase : {1}, env : Envs(cfg), first : {NoPair}]

\* the first call is over and the same call is made again
SameCall == Restart(cfg)

TwiceNext ==
    \/ CheckInput
    \/ NextRound
    \/ PairFetchOk
    \/ PairFetchFail
    \/ RecordRevisionError
    \/ NextWave
    \/ StartPredict
    \/ PairPostAnswered
    \/ PairPostRaises
    \/ Join
    \/ EndRound
    \/ ReturnNone
    \/ SameCall

TwiceSpec == TwiceInit /\ [][TwiceNext]_vars

\* the GETs of a call in the order issued, each with its answer
GetSequence(f) == [k \in DOMAIN f |-> f[k].answer]

\* the POSTs of a call, as one set of requests per wave, in wave order
WavePosts(j) == [k \in DOMAIN j |-> [round |-> j[k].round, wave |-> j[k].wave,
                                     requests |-> j[k].requests]]

\* C23: of two runs of batch_predict with the same configuration and input
\* against the same deterministic environment, whatever the order in which
\* the responses of a wave arrive in either run, the second returns the
\* result the first returned, has issued the same sequence of GETs and, wave
\* by wave, the same set of POSTs; while it runs, its GETs and waves are a
\* prefix of the first run's.
C23_Deterministic ==
    pair.phase = 2 =>
        /\ IsPrefix(GetSequence(fetched), GetSequence(pair.first.fetched))
        /\ IsPrefix(WavePosts(joined), WavePosts(pair.first.joined))
        /\ pc = "done" =>
              /\ result = pair.first.result
              /\ GetSequence(fetched) = GetSequence(pair.first.fetched)
              /\ gets = pair.first.gets
              /\ WavePosts(joined) = WavePosts(pair.first.joined)
              /\ posts = pair.first.posts

\* two concurrent runs on two items, both over with the same result after
\* two waves
C23_Witness ==
    /\ pair.phase = 2 /\ pc = "done" /\ ~cfg.sequential /\ cfg.n = 2
    /\ result # NoneObj /\ result = pair.first.result
    /\ Len(joined) = 2 /\ posts = 3 /\ gets = 1
    /\ Cardinality(joined[1].requests) = 2

\* the elements of a set of numbers in ascending order
RECURSIVE Ascending(_)
Ascending(S) ==
    IF S = {} THEN << >>
    ELSE LET m == CHOOSE a \in S : \A b \in S : a <= b
         IN  <<m>> \o Ascending(S \ {m})

\* the indices the waves joined so far in round r posted, wave after wave,
\* from position k of the log on
RECURSIVE PostedFrom(_, _)
PostedFrom(r, k) ==
    IF k > Len(joined) THEN << >>
    ELSE (IF joined[k].round = r
          THEN Ascending({q.data_idx : q \in joined[k].requests})
          ELSE << >>) \o PostedFrom(r, k + 1)

\* C24: every POST issued has exactly one attempt record (the records of the
\* call are as many as the POSTs of its joined waves); a record carries the
\* index of its item, an end time and exactly one of a status code and an
\* error string; the records of a round are, wave after wave, those of the
\* indices the wave posted, so the records of one index are in attempt order
\* and the records of the round are as many as its waves had pending indices;
\* and a wave after the first of its round posts exactly the indices the
\* wave before left empty.
C24_OneRecordPerAttempt ==
    /\ AttemptCount(stats) + (IF pc = "dispatch" THEN started ELSE 0) = posts
    /\ \A r \in DOMAIN stats :
          LET recs == stats[r].data_point_retries IN
          /\ [k \in DOMAIN recs |-> recs[k].data_idx] = PostedFrom(r, 1)
          /\ \A k \in DOMAIN recs :
                /\ recs[k].data_idx \in Indices
                /\ recs[k].end_time # None
                /\ (recs[k].status_code # None) # (recs[k].error # None)
    /\ \A k \in 2 .. Len(joined) :
          joined[k].round = joined[k - 1].round =>
             {q.data_idx : q \in joined[k].requests}
                = Indices \ Filled(joined[k - 1].slots)

\* a round of two waves on two items: both posted in the first wave, one
\* answered 200 and one raising, the second posted again in the second wave
C24_Witness ==
    /\ pc = "done" /\ result # NoneObj /\ cfg.n = 2 /\ Len(stats) = 1
    /\ Len(stats[1].data_point_retries) = 3 /\ posts = 3
    /\ stats[1].data_point_retries[1].status_code = "200"
    /\ stats[1].data_point_retries[2].error # None
    /\ stats[1].data_point_retries[3].data_idx = 2
    /\ stats[1].data_point_retries[3].status_code = "200"

\* C25: in the returned stats the record of every round has one of three
\* shapes, by what the round did about the revision: the fetch succeeded
\* (revision is the fetched value, no revision error), the fetch failed
\* (revision none, revision error set, no attempt record) or the fetch was
\* skipped (skip mode: revision none, no revision error); no record has both
\* a revision and a revision error, whatever earlier rounds fetched.
C25_RoundRecordShapes ==
    pc = "done" =>
       /\ Len(stats) = Len(fetched)
       /\ \A r \in DOMAIN stats :
             LET s == stats[r]
                 f == fetched[r]
             IN  /\ f.kind \in {"ok", "fail", "skip"}
                 /\ f.kind = "skip" <=> SkipMode
                 /\ f.kind = "ok" =>
                       s.revision = f.value /\ s.revision_error = None
                 /\ f.kind = "fail" =>
                       /\ s.revision = None
                       /\ s.revision_error # None
                       /\ s.data_point_retries = << >>
                 /\ f.kind = "skip" =>
                       s.revision = None /\ s.revision_error = None
                 /\ ~(s.revision # None /\ s.revision_error # None)

\* a returned call whose first round fetched a revision and whose second
\* round failed to: the call still holds the revision, the record does not
C25_Witness ==
    /\ pc = "done" /\ Len(stats) >= 2
    /\ fetched[1].kind = "ok" /\ stats[1].revision # None
    /\ fetched[2].kind = "fail" /\ stats[2].revision = None
    /\ revision = stats[1].revision

\* C27: a stats record is never written after its end time was: a step
\* leaves every round record whose end time is set as it is, and every
\* attempt record held by the stats as it is (attempt records are appended
\* with their end time set).
C27_NeverMutatedAfterClose ==
    [][ \A r \in DOMAIN stats :
           /\ r \in DOMAIN stats'
           /\ stats[r].end_time # None => stats'[r] = stats[r]
           /\ \A k \in DOMAIN stats[r].data_point_retries :
                 /\ stats[r].data_point_retries[k].end_time # None
                 /\ k \in DOMAIN stats'[r].data_point_retries
                 /\ stats'[r].data_point_retries[k] = stats[r].data_point_retries[k]
      ]_vars

\* the rounds of the call that were started: all those before the current
\* one, and the current one when the call returned from inside it
RoundsStarted == IF result # NoneObj THEN batch_retry_idx + 1 ELSE batch_retry_idx

\* C26: when the call has returned, with a result or none, the stats hold
\* one record per round started, every round record and every attempt record
\* has its end time set; records are created one past the last, in round
\* order, and a record is created only when every record before it is closed.
C26_StatsCompleteAtReturn ==
    /\ [](pc = "done" =>
             /\ Len(stats) = RoundsStarted
             /\ Len(stats) = Len(fetched)
             /\ \A r \in DOMAIN stats :
                   /\ stats[r].end_time # None
                   /\ \A k \in DOMAIN stats[r].data_point_retries :
                         stats[r].data_point_retries[k].end_time # None)
    /\ [][ /\ Len(stats') \in {Len(stats), Len(stats) + 1}
           /\ Len(stats') = Len(stats) + 1 =>
                 /\ \A r \in DOMAIN stats :
                       stats[r].end_time # None /\ stats'[r] = stats[r]
                 /\ stats'[Len(stats')].end_time = None
                 /\ batch_retry_idx = Len(stats) ]_vars

\* a returned call of three rounds: a failed fetch, an exhausted round with
\* attempts, and a round that filled every slot
C26_Witness ==
    /\ pc = "done" /\ result # NoneObj /\ Len(stats) = 3
    /\ stats[1].revision_error # None
    /\ stats[2].data_point_retries # << >>
    /\ stats[3].data_point_retries # << >>

\* the indices posted at least once in a wave that was joined
EverDispatched == UNION {{q.data_idx : q \in joined[k].requests} : k \in DOMAIN joined}

\* C28: a result is returned only by the step that joins a dispatched wave of
\* the current round; so a call made with batch_retry = 0 or with
\* data_point_retry = 0 returns none, posts nothing and joins no wave,
\* whatever the input, the empty list included; and a returned result means
\* every index was dispatched.
C28_ResultOnlyAfterWave ==
    /\ [][ (result' # NoneObj /\ result = NoneObj) =>
              /\ pc = "dispatch" /\ pc' = "done"
              /\ WaveReturned
              /\ joined' = Append(joined, joined'[Len(joined')])
              /\ joined'[Len(joined')].round = batch_retry_idx + 1
              /\ joined'[Len(joined')].wave = dp_idx + 1
              /\ joined'[Len(joined')].slots = result'.value ]_vars
    /\ []((cfg.batch_retry = 0 \/ cfg.data_point_retry = 0) =>
              /\ result = NoneObj
              /\ joined = << >>
              /\ posts = 0)
    /\ [](result # NoneObj => EverDispatched = Indices)

\* the empty list with data_point_retry = 0: every round was started and
\* closed without a wave, and none is returned
C28_Witness ==
    /\ pc = "done" /\ cfg.n = 0 /\ cfg.input = "list"
    /\ cfg.data_point_retry = 0 /\ cfg.batch_retry >= 2
    /\ Len(stats) = cfg.batch_retry
    /\ result = NoneObj /\ joined = << >>

\* ------------------------------------------------- the middleware by itself
\* An application with the middleware installed (paths = pair.paths, app_revision
\* = appRevision) receives arbitrary requests, one at a time: process_request
\* answers the request itself or forwards it to the application's handler.
\* No client call runs: the variables of batch_predict keep their initial
\* values, and pair holds the request in hand, the response and whether the
\* handler was invoked.

Methods == {"GET", "POST"}
\* the revision path, a guarded path and a path that is not guarded
RequestPaths == {"/model_revision", PredictPath, "/health"}
\* an x-dip header: absent, the bypass value, and values that are not it
XDipValues == {Absent, "off", "on", "OFF"}
Requests ==
    [method : Methods, path : RequestPaths,
     headers : [x_dip : XDipValues, x_model_revision : {Absent} \cup Revs]]

\* the paths an application may hand to DipMiddleware: the path the client
\* posts to, alone or together with the revision path
ConfiguredPaths == {Paths, Paths \cup {"/model_revision"}}

NoRequest ==
    [method |-> "none", path |-> "none",
     headers |-> [x_dip |-> Absent, x_model_revision |-> Absent]]
NoResponse == [by |-> "none", status |-> "none", revision |-> None]

GateInit ==
    /\ cfg = [n |-> 0, batch_retry |-> 0, data_point_retry |-> 0,
              sequential |-> FALSE, skip |-> FALSE, gated |-> TRUE,
              input |-> "list"]
    /\ x = << >>
    /\ appRevision \in Revs
    /\ InitCall
    /\ pair \in [phase : {4}, paths : ConfiguredPaths, at : {"idle"},
                 request : {NoRequest}, response : {NoResponse},
                 invoked : {FALSE}]

\* a request arrives
Receive(req) ==
    /\ pair.phase = 4
    /\ pair.at \in {"idle", "answered"}
    /\ pair' = [pair EXCEPT !.at = "received", !.request = req,
                            !.response = NoResponse, !.invoked = FALSE]
    /\ UNCHANGED <<joined, cfg, x, heap, pc, batch_retry_idx, dp_idx, revision,
                   prev_revision, predictions, tasks, started, inflight, responses,
                   stats, result, appRevision, fetched, sent, gets, posts>>

\* fast_api.py 28-47: process_request up to its return or its call_next
Gate ==
    /\ pair.phase = 4
    /\ pair.at = "received"
    /\ LET d == ProcessRequest(pair.paths, pair.request.method,
                               pair.request.path, pair.request.headers,
                               appRevision)
       IN  pair' = IF d = "call_next"
                   THEN [pair EXCEPT !.at = "handler"]
                   ELSE IF d = "revision"
                   THEN [pair EXCEPT !.at = "answered",
                                     !.response = [by |-> "middleware",
                                                   status |-> "200",
                                                   revision |-> appRevision]]
                   ELSE [pair EXCEPT !.at = "answered",
                                     !.response = [by |-> "middleware",
                                                   status |-> d,
                                                   revision |-> None]]
    /\ UNCHANGED <<joined, cfg, x, heap, pc, batch_retry_idx, dp_idx, revision,
                   prev_revision, predictions, tasks, started, inflight, responses,
                   stats, result, appRevision, fetched, sent, gets, posts>>

\* call_next(request): the application handles the request and answers
Handle ==
    /\ pair.phase = 4
    /\ pair.at = "handler"
    /\ \E s \in HandlerStatuses \cup {"404", "405"} :
          pair' = [pair EXCEPT !.at = "answered", !.invoked = TRUE,
                               !.response = [by |-> "handler", status |-> s,
                                             revision |-> None]]
    /\ UNCHANGED <<joined, cfg, x, heap, pc, batch_retry_idx, dp_idx, revision,
                   prev_revision, predictions, tasks, started, inflight, responses,
                   stats, result, appRevision, fetched, sent, gets, posts>>

GateNext ==
    \/ \E req \in Requests : Receive(req)
    \/ Gate
    \/ Handle

GateSpec == GateInit /\ [][GateNext]_vars

\* the request in hand is a POST to a guarded path
GuardedPost ==
    /\ pair.request.method = "POST"
    /\ pair.request.path \in pair.paths

\* the middleware answered the request in hand with `status`, and the handler
\* was not invoked
Rejected(status) ==
    /\ pair.response = [by |-> "middleware", status |-> status, revision |-> None]
    /\ ~pair.invoked

\* the request in hand reached the handler
Forwarded == pair.invoked /\ pair.response.by = "handler"

\* C29: a POST to a guarded path that does not carry x-dip: off is answered
\* 412 by the middleware, the handler not invoked, when x-model-revision is
\* absent; 400 by the middleware, the handler not invoked, when it is present
\* and differs from the application's revision; and it reaches the handler
\* exactly when x-model-revision equals the application's revision.
C29_GateDecision ==
    (pair.at = "answered" /\ GuardedPost /\ pair.request.headers.x_dip # "off") =>
        LET rev == pair.request.headers.x_model_revision IN
        /\ rev = Absent => Rejected("412")
        /\ (rev # Absent /\ rev # appRevision) => Rejected("400")
        /\ rev = appRevision => Forwarded
        /\ pair.invoked <=> rev = appRevision

\* a POST to the guarded path with the revision of another deployment was
\* answered 400
C29_Witness ==
    /\ pair.at = "answered" /\ GuardedPost
    /\ pair.request.headers.x_dip = Absent
    /\ pair.request.headers.x_model_revision \notin {Absent, appRevision}
    /\ Rejected("400")

\* C30: a POST to a guarded path that carries x-dip: off reaches the handler
\* whatever its x-model-revision header is (absent, matching, mismatched), and
\* the middleware never answers it itself; a POST with another x-dip value is
\* treated as one without the header: 412 without x-model-revision, 400 with
\* a mismatched one, forwarded only with the matching one.
C30_BypassTakesPrecedence ==
    (pair.at = "answered" /\ GuardedPost) =>
        LET xdip == pair.request.headers.x_dip
            rev == pair.request.headers.x_model_revision
        IN  /\ xdip = "off" => Forwarded /\ pair.response.status \notin {"412"}
            /\ xdip \notin {Absent, "off"} =>
                  /\ Forwarded <=> rev = appRevision
                  /\ rev = Absent => pair.response.status = "412"
                  /\ rev \notin {Absent, appRevision} =>
                        pair.response.status = "400" /\ ~pair.invoked

\* a POST with x-dip: off and a mismatched revision was handled and answered
\* 200
C30_Witness ==
    /\ pair.at = "answered" /\ GuardedPost
    /\ pair.request.headers.x_dip = "off"
    /\ pair.request.headers.x_model_revision \notin {Absent, appRevision}
    /\ Forwarded /\ pair.response.status = "200"

\* the request in hand is the revision query
RevisionQuery ==
    /\ pair.request.method = "GET"
    /\ pair.request.path = "/model_revision"

\* C31: GET /model_revision is answered by the middleware itself, with status
\* 200 and the application's revision as the body, the handler not invoked,
\* whatever headers the request carries and whether or not /model_revision is
\* one of the configured paths; a POST to /model_revision never gets the
\* revision answer.
C31_RevisionQueryAnswered ==
    pair.at = "answered" =>
        /\ RevisionQuery =>
              /\ pair.response = [by |-> "middleware", status |-> "200",
                                  revision |-> appRevision]
              /\ ~pair.invoked
        /\ (pair.request.method = "POST" /\ pair.request.path = "/model_revision") =>
              /\ pair.response.revision = None
              /\ ~(pair.response.by = "middleware" /\ pair.response.status = "200")

\* the revision query, on an application that lists /model_revision among
\* the guarded paths, carrying the revision of another deployment
C31_Witness ==
    /\ pair.at = "answered" /\ RevisionQuery
    /\ "/model_revision" \in pair.paths
    /\ pair.request.headers.x_model_revision \notin {Absent, appRevision}
    /\ pair.response.status = "200" /\ pair.response.revision = appRevision

\* the request in hand is outside the gate: its path is not configured, or
\* it is not a POST
OutOfScope ==
    \/ pair.request.path \notin pair.paths
    \/ pair.request.method # "POST"

\* C32 as stated: every request whose path is not configured, and every
\* non-POST request to a configured path, reaches the handler and gets the
\* handler's response.
C32_EveryOutOfScopeForwarded ==
    (pair.at = "answered" /\ OutOfScope) => Forwarded

\* C32, amended: every request outside the gate other than the revision
\* query (GET /model_revision, which the middleware answers itself) reaches
\* the handler and gets the handler's response, never a 412 or a 400 of the
\* gate; the middleware leaves the request in hand as it is.
C32_OutOfScopeUntouched ==
    /\ []((pair.at = "answered" /\ OutOfScope /\ ~RevisionQuery) =>
             /\ Forwarded
             /\ pair.response.by # "middleware")
    /\ []((pair.at = "handler" /\ OutOfScope) => ~RevisionQuery)
    /\ [][ pair.at = "received" => pair'.request = pair.request ]_vars

\* a POST to a path that is not configured, with no x-model-revision, was
\* handled by the application
C32_Witness ==
    /\ pair.at = "answered"
    /\ pair.request.method = "POST" /\ pair.request.path = "/health"
    /\ pair.request.headers.x_model_revision = Absent
    /\ pair.request.headers.x_dip = Absent
    /\ Forwarded

\* ------------------------------------------------------------ init_app
\* A process holds a few DipMiddleware objects and applications and calls
\* init_app on them in any order. __times_init_app_called is a class
\* attribute (fast_api.py 12); `self.__times_init_app_called += 1` reads the
\* attribute through the instance (the instance's own one when it has one,
\* the class's otherwise) and writes the sum to the instance. pair holds the
\* class attribute, the instance attributes written so far, the gates
\* registered (instance and application, in order) and the number of calls
\* that raised. No client call runs.

MaxInitCalls == 4
Middlewares == {"dip_a", "dip_b", "dip_c"}
Apps == {"app_1", "app_2"}

\* self.__times_init_app_called as init_app reads it on instance m
TimesInitAppCalled(m) ==
    IF m \in pair.own THEN pair.times[m] ELSE pair.class_times

SetupInit ==
    /\ cfg = [n |-> 0, batch_retry |-> 0, data_point_retry |-> 0,
              sequential |-> FALSE, skip |-> FALSE, gated |-> TRUE,
              input |-> "list"]
    /\ x = << >>
    /\ appRevision = "1"
    /\ InitCall
    /\ pair = [phase |-> 5, class_times |-> 0, own |-> {},
               times |-> [m \in Middlewares |-> 0], gates |-> << >>,
               raised |-> 0, last |-> "none"]

\* lines 19-21: the counter read is positive, init_app raises
InitAppRaises(m, app) ==
    /\ pair.phase = 5
    /\ Len(pair.gates) + pair.raised < MaxInitCalls
    /\ TimesInitAppCalled(m) > 0
    /\ pair' = [pair EXCEPT !.raised = @ + 1, !.last = "raised"]
    /\ UNCHANGED <<joined, cfg, x, heap, pc, batch_retry_idx, dp_idx, revision,
                   prev_revision, predictions, tasks, started, inflight, responses,
                   stats, result, appRevision, fetched, sent, gets, posts>>

\* lines 19, 23-26: the counter read is 0; the sum is written to the
\* instance and process_request is registered on the application
InitAppRegisters(m, app) ==
    /\ pair.phase = 5
    /\ Len(pair.gates) + pair.raised < MaxInitCalls
    /\ ~(TimesInitAppCalled(m) > 0)
    /\ pair' = [pair EXCEPT !.own = @ \cup {m},
                            !.times[m] = TimesInitAppCalled(m) + 1,
                            !.gates = Append(@, [middleware |-> m, app |-> app]),
                            !.last = "registered"]
    /\ UNCHANGED <<joined, cfg, x, heap, pc, batch_retry_idx, dp_idx, revision,
                   prev_revision, predictions, tasks, started, inflight, responses,
                   stats, result, appRevision, fetched, sent, gets, posts>>

SetupNext ==
    \/ \E m \in Middlewares, app \in Apps : InitAppRaises(m, app)
    \/ \E m \in Middlewares, app \in Apps : InitAppRegisters(m, app)

SetupSpec == SetupInit /\ [][SetupNext]_vars

\* C33: once one init_app call has succeeded, every later init_app call of
\* the process, on the same DipMiddleware object or on another one, raises
\* and registers nothing: a step taken after a gate was registered raises
\* and leaves the registered gates as they are.
C33_SetOnlyOnce ==
    [][ Len(pair.gates) >= 1 =>
           /\ pair'.gates = pair.gates
           /\ pair'.last = "raised" ]_vars

\* --------------------------------------------------- __extract_files alone
\* One call of __extract_files on an item drawn from: a bytes object, a
\* stream, a str, an int, and every dict over three keys whose values are
\* scalars, bytes objects or streams. pair holds the dict as it was handed
\* in and what the call returned. No client call runs.

DictKeys == {"f", "img", "doc"}
ValueKinds == {"scalar"} \cup BinaryKinds
Dicts == UNION {[K -> ValueKinds] : K \in SUBSET DictKeys}
\* items that are neither bytes, nor a stream, nor a dict
PlainItems == {"str", "int"}
Items == BinaryItems \cup ObjIds \cup PlainItems

ClassifyInit ==
    /\ cfg = [n |-> 1, batch_retry |-> 0, data_point_retry |-> 0,
              sequential |-> FALSE, skip |-> FALSE, gated |-> FALSE,
              input |-> "list"]
    /\ x \in [1 .. 1 -> Items]
    /\ heap \in [ObjIds -> Dicts]
    /\ appRevision = "1"
    /\ pc = "start"
    /\ batch_retry_idx = 0
    /\ dp_idx = 0
    /\ revision = None
    /\ prev_revision = None
    /\ predictions = ResetPredictions(cfg.n)
    /\ tasks = << >>
    /\ started = 0
    /\ inflight = << >>
    /\ responses = << >>
    /\ stats = << >>
    /\ result = NoneObj
    /\ fetched = << >>
    /\ sent = [i \in 1 .. cfg.n |-> {}]
    /\ gets = 0
    /\ posts = 0
    /\ joined = << >>
    /\ pair = [phase |-> 6, at |-> "item"]

\* line 217: data, files = self.__extract_files(data)
ExtractOnce ==
    /\ pair.phase = 6
    /\ pair.at = "item"
    /\ LET e == ExtractFiles(x[1], heap)
       IN  /\ heap' = e.heap
           /\ pair' = [phase |-> 6, at |-> "classified", before |-> heap,
                       data |-> e.data, files |-> e.files]
    /\ UNCHANGED <<joined, cfg, x, pc, batch_retry_idx, dp_idx, revision,
                   prev_revision, predictions, tasks, started, inflight, responses,
                   stats, result, appRevision, fetched, sent, gets, posts>>

ClassifyNext == ExtractOnce

ClassifySpec == ClassifyInit /\ [][ClassifyNext]_vars

\* C34: what __extract_files returns for an item: for a bytes object or a
\* stream, no fields and the one attachment "media", the item itself; for a
\* dict, as attachments exactly its entries whose value is a bytes object or
\* a stream and as fields exactly the other entries, each under its key with
\* its value, so the two key sets are disjoint and together the dict's keys;
\* for any other item, the item as the fields and no attachment.
C34_ClassifyPartitions ==
    (pair.phase = 6 /\ pair.at = "classified") =>
        LET item == x[1] IN
        IF item \in BinaryItems
        THEN /\ DOMAIN pair.data = {}
             /\ DOMAIN pair.files = {"media"}
             /\ pair.files["media"] = item
        ELSE IF item \in ObjIds
        THEN LET d == pair.before[item]
                 binary == {k \in DOMAIN d : d[k] \in BinaryKinds}
             IN  /\ DOMAIN pair.files = binary
                 /\ DOMAIN pair.data = DOMAIN d \ binary
                 /\ \A k \in DOMAIN pair.files : pair.files[k] = d[k]
                 /\ \A k \in DOMAIN pair.data : pair.data[k] = d[k]
                 /\ DOMAIN pair.files \cap DOMAIN pair.data = {}
                 /\ DOMAIN pair.files \cup DOMAIN pair.data = DOMAIN d
        ELSE /\ pair.data = item
             /\ DOMAIN pair.files = {}

\* a dict of a scalar, a bytes object and a stream was classified: one field,
\* two attachments
C34_Witness ==
    /\ pair.phase = 6 /\ pair.at = "classified"
    /\ x[1] \in ObjIds
    /\ pair.before[x[1]] = [k \in DictKeys |->
                              IF k = "f" THEN "scalar"
                              ELSE IF k = "img" THEN "bytes" ELSE "iobase"]
    /\ DOMAIN pair.files = {"img", "doc"}
    /\ DOMAIN pair.data = {"f"}

\* ------------------------------------------------------------ termination
\* The call of Spec on the configurations of at most LiveMaxPosts POSTs,
\* with the assumption of the claim: every request completes, so a step of
\* the call that is possible is eventually taken. The redeployments of the
\* application (RevisionChange) are under no such assumption.

LiveMaxPosts == 4

LiveInit ==
    /\ Init
    /\ cfg.n * cfg.batch_retry * cfg.data_point_retry <= LiveMaxPosts

\* a step of batch_predict or of one of its requests
CallStep ==
    \/ CheckInput
    \/ NextRound
    \/ FetchOk
    \/ FetchFail
    \/ RecordRevisionError
    \/ NextWave
    \/ StartPredict
    \/ PostAnswered
    \/ PostRaises
    \/ Join
    \/ EndRound
    \/ ReturnNone

LiveNext ==
    \/ CallStep
    \/ RevisionChange

LiveSpec == LiveInit /\ [][LiveNext]_vars /\ WF_vars(CallStep)

\* the waves of round r joined so far
WavesOf(r) == {k \in DOMAIN joined : joined[k].round = r}

\* the POSTs issued so far for index i: those of the waves joined, and the
\* one of the wave being dispatched
PostsOf(i) ==
    Cardinality({k \in DOMAIN joined :
                    \E q \in joined[k].requests : q.data_idx = i})
      + Cardinality({k \in DOMAIN inflight :
                        pc = "dispatch" /\ inflight[k].data_idx = i})

\* C35: the call ends (it returns, or raises on an input that is not a
\* list), and at every moment it has started at most batch_retry rounds,
\* issued at most batch_retry GETs, joined at most data_point_retry waves in
\* any round and issued at most batch_retry * data_point_retry POSTs for any
\* one index.
C35_Terminates ==
    /\ <>(pc \in {"done", "raised"})
    /\ [](/\ Len(stats) <= cfg.batch_retry
          /\ batch_retry_idx <= cfg.batch_retry
          /\ gets <= cfg.batch_retry
          /\ dp_idx <= cfg.data_point_retry
          /\ \A r \in DOMAIN stats :
                Cardinality(WavesOf(r)) <= cfg.data_point_retry
          /\ \A i \in Indices :
                PostsOf(i) <= cfg.batch_retry * cfg.data_point_retry)

\* a call of one item that used everything it was given: two rounds, two
\* GETs, two waves in each round, four POSTs of the item, and none returned
C35_Witness ==
    /\ pc = "done" /\ result = NoneObj
    /\ cfg.n = 1 /\ cfg.batch_retry = 2 /\ cfg.data_point_retry = 2
    /\ Len(stats) = 2 /\ gets = 2
    /\ Cardinality(WavesOf(1)) = 2 /\ Cardinality(WavesOf(2)) = 2
    /\ PostsOf(1) = 4

\* the tasks of the wave whose POST was issued and has not completed
Outstanding == {k \in 1 .. started : ~responses[k].done}

\* C36: with sequential=True at most one POST is outstanding at any time and
\* a POST is issued only when every POST issued before it in the wave has
\* completed; in both modes the POSTs of a wave are issued in ascending index
\* order; with sequential=False the next POST of a wave can be issued
\* whatever the state of the others, and all are issued before any completes.
C36_DispatchOrder ==
    /\ []((cfg.sequential /\ pc = "dispatch") => Cardinality(Outstanding) <= 1)
    /\ [][ (cfg.sequential /\ pc = "dispatch" /\ started' = started + 1) =>
              /\ Outstanding = {}
              /\ Outstanding' = {started'} ]_vars
    /\ [](pc = "dispatch" =>
             /\ Len(inflight) = started
             /\ \A k \in DOMAIN inflight : inflight[k].data_idx = tasks[k][1]
             /\ \A k, l \in DOMAIN inflight :
                   k < l => inflight[k].data_idx < inflight[l].data_idx)
    /\ []((~cfg.sequential /\ pc = "dispatch" /\ started < Len(tasks)) =>
             /\ ENABLED StartPredict
             /\ Outstanding = 1 .. started)

\* a sequential wave of two items: the first POST has completed and the
\* second is outstanding
C36_Witness ==
    /\ cfg.sequential /\ pc = "dispatch" /\ cfg.n = 2
    /\ started = 2 /\ Len(tasks) = 2
    /\ responses[1].done /\ ~responses[2].done
    /\ inflight[1].data_idx = 1 /\ inflight[2].data_idx = 2

\* C37: the requests of a wave target pairwise different indices, so at most
\* one POST per index is in flight, and the outcome of a request carries the
\* index of its request; the join changes slot i only by the body of a
\* response of this wave for index i answered 200, a slot that was filled
\* when the wave started holds the same content when the wave is joined, and
\* no other step of the dispatch writes a slot.
C37_SlotsOwnedByIndex ==
    /\ [](pc = "dispatch" =>
             /\ \A k, l \in DOMAIN tasks : tasks[k][1] = tasks[l][1] => k = l
             /\ \A k, l \in DOMAIN inflight :
                   inflight[k].data_idx = inflight[l].data_idx => k = l
             /\ \A k \in DOMAIN tasks : predictions[tasks[k][1]] = NoneObj
             /\ \A k \in 1 .. started :
                   responses[k].done =>
                      responses[k].dip.data_idx = inflight[k].data_idx)
    /\ [][ pc = "dispatch" =>
             \A i \in Indices :
                /\ predictions[i] # NoneObj => predictions'[i] = predictions[i]
                /\ predictions'[i] # predictions[i] =>
                      /\ pc' # "dispatch"
                      /\ \E k \in 1 .. started :
                            /\ responses[k].done
                            /\ inflight[k].data_idx = i
                            /\ responses[k].dip.status_code = "200"
                            /\ responses[k].dip.content = predictions'[i] ]_vars

\* the second wave of a round on two items: slot 1 was filled by the first
\* wave, only index 2 is posted, and the join fills slot 2 and leaves slot 1
C37_Witness ==
    /\ pc = "done" /\ result # NoneObj /\ cfg.n = 2
    /\ Len(joined) = 2 /\ joined[1].round = 1 /\ joined[2].round = 1
    /\ joined[1].slots[1] # NoneObj /\ joined[1].slots[2] = NoneObj
    /\ {q.data_idx : q \in joined[2].requests} = {2}
    /\ joined[2].slots[1] = joined[1].slots[1]
    /\ joined[2].slots[2] # NoneObj

\* round r fetched a revision, round r + 1 failed to, round r + 2 fetched one
OkFailOk(f, r) ==
    /\ r >= 1 /\ r + 2 <= Len(f)
    /\ f[r].kind = "ok" /\ f[r + 1].kind = "fail" /\ f[r + 2].kind = "ok"

\* the slots as the last wave joined in round r left them
SlotsAfter(r) == joined[MaxOf(WavesOf(r))].slots

\* C38: a round whose revision fetch fails leaves the slots and the revision
\* the call holds as they were, through both steps of its handler, and the
\* next round remembers that revision as the previous one. So when round k
\* fetched r, round k+1 failed and round k+2 fetches: if the value is r again
\* the fetch leaves every slot as round k left it, and the waves of round
\* k+2 post none of the slots round k filled; if the value is another one,
\* every slot is reset.
C38_FailedFetchKeepsState ==
    /\ [][ ((pc = "fetch" /\ pc' = "except") \/ (pc = "except" /\ pc' = "round")) =>
              /\ predictions' = predictions
              /\ revision' = revision ]_vars
    /\ [][ (pc = "round" /\ pc' = "fetch") => prev_revision' = revision ]_vars
    /\ [][ (pc = "fetch" /\ pc' = "wave" /\ OkFailOk(fetched', Len(fetched) - 1)) =>
              IF fetched'[Len(fetched')].value = fetched[Len(fetched) - 1].value
              THEN /\ predictions' = predictions
                   /\ WavesOf(Len(fetched) - 1) # {} =>
                         predictions' = SlotsAfter(Len(fetched) - 1)
              ELSE predictions' = ResetPredictions(cfg.n) ]_vars
    /\ [](\A r \in DOMAIN fetched :
             ( /\ OkFailOk(fetched, r)
               /\ fetched[r].value = fetched[r + 2].value
               /\ WavesOf(r) # {} ) =>
                  \A i \in Filled(SlotsAfter(r)) :
                     /\ \A k \in WavesOf(r + 2) :
                           \A q \in joined[k].requests : q.data_idx # i
                     /\ (r + 2 = Len(fetched) /\ pc \in {"wave", "dispatch", "done"}) =>
                           predictions[i] = SlotsAfter(r)[i])

\* two items over three rounds of one wave: round 1 fetched a revision and
\* filled slot 1, round 2 failed to fetch, round 3 fetched the same revision,
\* posted index 2 only and returned slot 1 as round 1 filled it
C38_Witness ==
    /\ pc = "done" /\ result # NoneObj /\ cfg.n = 2
    /\ Len(fetched) = 3 /\ OkFailOk(fetched, 1)
    /\ fetched[1].value = fetched[3].value
    /\ WavesOf(1) # {} /\ Filled(SlotsAfter(1)) = {1}
    /\ \A k \in WavesOf(3) : {q.data_idx : q \in joined[k].requests} = {2}
    /\ result.value[1] = SlotsAfter(1)[1]
    /\ result.value[1].round = 1 /\ result.value[2].round = 3

\* --------------------------------------------------------------- progress
\* One call against an environment fixed at the start (its answer to the GET
\* of each round and its outcome for the POST of each round, wave and index),
\* on an endpoint without the middleware, every request completing.

ProgressMaxBatchRetry == 2
ProgressMaxPosts == 4

ProgressConfigs ==
    {c \in Configs :
        /\ c.input = "list" /\ ~c.gated
        /\ c.batch_retry <= ProgressMaxBatchRetry
        /\ c.n * c.batch_retry * c.data_point_retry <= ProgressMaxPosts}

\* the answers to the GET: a transport exception, or a revision (a string or
\* a JSON null)
ProgressGetAnswers ==
    {a \in EndpointGetAnswers :
        a.kind = "exception" \/ (a.status = "200" /\ a.json /\ a.has_revision)}

ProgressEnvs(c) ==
    {e \in Envs(c) : \A r \in DOMAIN e.get : e.get[r] \in ProgressGetAnswers}

ProgressInit ==
    /\ cfg \in ProgressConfigs
    /\ x \in Inputs(cfg.n)
    /\ appRevision = "1"   \* plays no part without the middleware
    /\ InitCall
    /\ pair \in [phase : {1}, env : ProgressEnvs(cfg), first : {NoPair}]

ProgressNext ==
    \/ CheckInput
    \/ NextRound
    \/ PairFetchOk
    \/ PairFetchFail
    \/ RecordRevisionError
    \/ NextWave
    \/ StartPredict
    \/ PairPostAnswered
    \/ PairPostRaises
    \/ Join
    \/ EndRound
    \/ ReturnNone

ProgressSpec == ProgressInit /\ [][ProgressNext]_vars /\ WF_vars(ProgressNext)

\* the attempts an index can get, numbered over the whole call, and the
\* round and the wave of the round in which attempt t is made when no slot
\* is ever reset
Attempts == 1 .. (cfg.batch_retry * cfg.data_point_retry)
RoundOf(t) == ((t - 1) \div cfg.data_point_retry) + 1
WaveOf(t) == ((t - 1) % cfg.data_point_retry) + 1

\* the environment answers attempt t of index i with 200
Answers200(i, t) == pair.env.post[<<RoundOf(t), WaveOf(t), i>>] = "200"

\* every GET the call can issue is answered with a revision, the same one
StableRevision ==
    SkipMode \/
    \A r, s \in 1 .. cfg.batch_retry :
        /\ RequestRevision(pair.env.get[r]).ok
        /\ RequestRevision(pair.env.get[r]).value
              = RequestRevision(pair.env.get[s]).value

\* k_i: the first attempt of index i that the environment answers with 200
FirstOk(i) == CHOOSE t \in Attempts :
                 /\ Answers200(i, t)
                 /\ \A u \in Attempts : Answers200(i, u) => t <= u

\* the hypothesis of the claim, on a batch that is not empty
ProgressHypothesis ==
    /\ cfg.n >= 1
    /\ StableRevision
    /\ \A i \in Indices : \E t \in Attempts : Answers200(i, t)

LastAttempt == MaxOf({FirstOk(i) : i \in Indices})

\* under the hypothesis, the call has returned the full result, slot i
\* holding the body of attempt k_i, after exactly k_i POSTs of each index i,
\* in the round and the wave of the largest k_i
ProgressGoal ==
    /\ ProgressHypothesis
    /\ pc = "done"
    /\ result # NoneObj
    /\ Filled(result.value) = Indices
    /\ \A i \in Indices :
          /\ PostsOf(i) = FirstOk(i)
          /\ result.value[i].round = RoundOf(FirstOk(i))
          /\ result.value[i].wave = WaveOf(FirstOk(i))
    /\ Len(stats) = RoundOf(LastAttempt)
    /\ batch_retry_idx + 1 = RoundOf(LastAttempt)
    /\ Cardinality(WavesOf(RoundOf(LastAttempt))) = WaveOf(LastAttempt)
    /\ dp_idx + 1 = WaveOf(LastAttempt)

\* C39: when every GET is answered with one and the same revision and every
\* index i has a first attempt k_i answered 200 among the batch_retry *
\* data_point_retry attempts it can get, the call returns the full result,
\* having posted index i exactly k_i times, in the round and wave of the
\* largest k_i; and it returns nothing else.
C39_ProgressUnderStableRevision ==
    /\ ProgressHypothesis ~> ProgressGoal
    /\ []((ProgressHypothesis /\ pc = "done") => ProgressGoal)

\* two items over two rounds of one wave: index 1 is answered 200 at its
\* first attempt, index 2 at its second, and the call returns in round 2
C39_Witness ==
    /\ ProgressHypothesis /\ ProgressGoal
    /\ cfg.n = 2 /\ cfg.batch_retry = 2 /\ cfg.data_point_retry = 1
    /\ FirstOk(1) = 1 /\ FirstOk(2) = 2
    /\ posts = 3 /\ Len(stats) = 2

\* the call is batch_predict([]) with at least one round and one wave
EmptyBatch ==
    /\ cfg.input = "list" /\ cfg.n = 0
    /\ cfg.batch_retry >= 1 /\ cfg.data_point_retry >= 1

\* C40: batch_predict([]) with at least one round and one wave never issues
\* a POST and issues one GET in every round it starts (never skipping the
\* fetch); the rounds before the last all failed to fetch, so no round is
\* started after a fetch that succeeded; the call returns the empty list in
\* the round of its first successful fetch, after one wave without requests,
\* and returns none, after batch_retry GETs, when every fetch failed.
C40_EmptyBatch ==
    EmptyBatch =>
       /\ posts = 0
       /\ ~SkipMode
       /\ \A k \in DOMAIN joined : joined[k].requests = {}
       /\ \A r \in DOMAIN fetched :
             /\ fetched[r].kind \in {"ok", "fail"}
             /\ r < Len(fetched) => fetched[r].kind = "fail"
       /\ gets \in {Len(fetched), Len(fetched) + 1}
       /\ pc = "done" =>
             /\ gets = Len(fetched)
             /\ IF \E r \in DOMAIN fetched : fetched[r].kind = "ok"
                THEN /\ result = [kind |-> "list", value |-> << >>]
                     /\ Len(stats) = Len(fetched)
                     /\ Len(joined) = 1 /\ joined[1].round = Len(fetched)
                ELSE /\ result = NoneObj
                     /\ gets = cfg.batch_retry
                     /\ joined = << >>

\* batch_predict([]) returned [] in its second round, the fetch of the first
\* round having failed
C40_Witness ==
    /\ EmptyBatch /\ pc = "done"
    /\ Len(fetched) = 2 /\ fetched[1].kind = "fail" /\ fetched[2].kind = "ok"
    /\ gets = 2 /\ posts = 0
    /\ result = [kind |-> "list", value |-> << >>]

====
